---- MODULE Spec2Model ----
(***************************************************************************)
(* Routecast route screen: polyline decoding, route-level alert            *)
(* de-duplication and the per-waypoint road-surface condition rules.       *)
(* Routecast home and index screens: the locally stored recent and         *)
(* favourite routes and their synchronisation with the backend.            *)
(*                                                                         *)
(* Representation:                                                         *)
(*   - an encoded polyline is a sequence of UTF-16 code units (integers);  *)
(*   - a coordinate is a pair <<lat, lng>> of integers counting 1e-5       *)
(*     degrees, so the decoder's "lat / 1e5" is the coordinate whose       *)
(*     numerator is lat;                                                   *)
(*   - free text (conditions, wind speed) is a sequence of one-character   *)
(*     strings; a nullable value is <<>> for null and <<v>> for v.         *)
(***************************************************************************)
EXTENDS Integers, Sequences, FiniteSets, Bags, TLC

VARIABLES polyPc, coords, route_geometry, routeCoords,
          alertPc, waypoints, uniqueAlerts,
          roadPc, wp, card,
          store, recentRoutes, favoriteRoutes, listLoading,
          remoteFavs, remoteHistory, remoteSeq, mounted, rfCalls,
          frCalls, frFailed, ffCalls, origin, destination, error,
          showFavorites, loading, navigated, addCalls, rmCalls,
          removed, gwCalls,
          storedRecents, storedFavorites, recents, favorites,
          originText, destinationText, stops, activeTab, loadPc,
          loadRaw, loadR, loadF, crCalls, crDraft, crInLoad, pushed,
          alertShown, tgCalls, clCalls

homeVars == <<store, recentRoutes, favoriteRoutes, listLoading,
              remoteFavs, remoteHistory, remoteSeq, mounted, rfCalls,
              frCalls, frFailed, ffCalls, origin, destination, error,
              showFavorites, loading, navigated, addCalls, rmCalls,
              removed, gwCalls>>

indexVars == <<storedRecents, storedFavorites, recents, favorites,
               originText, destinationText, stops, activeTab, loadPc,
               loadRaw, loadR, loadF, crCalls, crDraft, crInLoad, pushed,
               alertShown, tgCalls, clCalls>>

vars == <<polyPc, coords, route_geometry, routeCoords,
          alertPc, waypoints, uniqueAlerts,
          roadPc, wp, card, homeVars, indexVars>>

polyVars == <<polyPc, coords, route_geometry, routeCoords>>
alertVars == <<alertPc, waypoints, uniqueAlerts>>
roadVars == <<roadPc, wp, card>>

(***************************************************************************)
(* Bounds of the model.                                                    *)
(***************************************************************************)
MaxPoints == 2
MaxWaypoints == 2
MaxAlerts == 2

\* Latitudes and longitudes (in 1e-5 degrees) the routes are drawn from: the
\* ends of the valid ranges and values next to zero.
Lats == {-9000000, 0, 9000000}
Lngs == {-18000000, -1, 18000000}

RECURSIVE SeqsUpTo(_, _)
SeqsUpTo(S, n) ==
  IF n = 0 THEN {<<>>}
  ELSE LET shorter == SeqsUpTo(S, n - 1)
       IN  shorter \cup {Append(q, x) : q \in {r \in shorter : Len(r) = n - 1}, x \in S}

CoordSeqs == SeqsUpTo(Lats \X Lngs, MaxPoints)

(***************************************************************************)
(* 32-bit integer operators of JavaScript.                                 *)
(***************************************************************************)
RECURSIVE Pow2(_)
Pow2(n) == IF n = 0 THEN 1 ELSE 2 * Pow2(n - 1)

MinInt32 == (-2147483647) - 1

\* x << shift on int32: the shift count is taken modulo 32 and the result
\* wraps to a signed 32-bit value.  Used with 0 <= x < 32.
Shl32(x, shift) ==
  LET s    == shift % 32
      low  == x % Pow2(31 - s)
      sign == (x \div Pow2(31 - s)) % 2
  IN  IF s = 0 THEN x
      ELSE IF s = 31 THEN (IF x % 2 = 1 THEN MinInt32 ELSE 0)
      ELSE IF sign = 1 THEN MinInt32 + low * Pow2(s)
      ELSE low * Pow2(s)

\* a | b on signed 32-bit values (two's complement, bit by bit).
RECURSIVE BitOr32(_, _)
BitOr32(a, b) ==
  IF a = 0 THEN b
  ELSE IF b = 0 THEN a
  ELSE IF a = -1 \/ b = -1 THEN -1
  ELSE (IF a % 2 = 1 \/ b % 2 = 1 THEN 1 ELSE 0)
       + 2 * BitOr32(a \div 2, b \div 2)

\* x & 0x1f
And1f(x) == x % 32

\* ~x
BitNot(x) == (-x) - 1

\* x >> n for small n (arithmetic shift)
Shr(x, n) == x \div Pow2(n)

(***************************************************************************)
(* Polyline encoding, precision 1e5: zig-zag signed deltas written in      *)
(* 5-bit groups, low group first, continuation bit 0x20, offset 63.        *)
(***************************************************************************)
RECURSIVE encodeUnsigned(_)
encodeUnsigned(v) ==
  IF v >= 32
  THEN <<(32 + And1f(v)) + 63>> \o encodeUnsigned(Shr(v, 5))
  ELSE <<v + 63>>

encodeSigned(d) ==
  encodeUnsigned(IF d < 0 THEN BitNot(2 * d) ELSE 2 * d)

RECURSIVE encodeFrom(_, _, _)
encodeFrom(ps, prevLat, prevLng) ==
  IF ps = <<>> THEN <<>>
  ELSE LET p == Head(ps)
       IN  encodeSigned(p[1] - prevLat) \o encodeSigned(p[2] - prevLng)
           \o encodeFrom(Tail(ps), p[1], p[2])

encodePolyline(ps) == encodeFrom(ps, 0, 0)

(***************************************************************************)
(* decodePolyline.                                                         *)
(***************************************************************************)
\* One do/while loop of the decoder: reads 5-bit groups starting at the
\* 0-based index until a group without continuation bit.  A read past the
\* end of the string gives NaN: NaN & 0x1f is 0 and NaN >= 0x20 is false,
\* so the loop ends there.
RECURSIVE readGroups(_, _, _, _)
readGroups(encoded, index, shift, result) ==
  IF index < Len(encoded)
  THEN LET byte == encoded[index + 1] - 63
           r    == BitOr32(result, Shl32(And1f(byte), shift))
       IN  IF byte >= 32
           THEN readGroups(encoded, index + 1, shift + 5, r)
           ELSE [index |-> index + 1, result |-> r]
  ELSE [index |-> index + 1, result |-> result]

\* Variant of unZigZag that drops the sign branch.
unZigZagUnsigned(result) == Shr(result, 1)

\* result & 1 ? ~(result >> 1) : result >> 1
unZigZag(result) ==
  IF result % 2 = 1 THEN BitNot(Shr(result, 1)) ELSE Shr(result, 1)

RECURSIVE decodeFrom(_, _, _, _)
decodeFrom(encoded, index, lat, lng) ==
  IF index < Len(encoded)
  THEN LET g1   == readGroups(encoded, index, 0, 0)
           lat2 == lat + unZigZag(g1.result)
           g2   == readGroups(encoded, g1.index, 0, 0)
           lng2 == lng + unZigZag(g2.result)
       IN  <<<<lat2, lng2>>>> \o decodeFrom(encoded, g2.index, lat2, lng2)
  ELSE <<>>

\* The decoder has no throw statement: it returns a list for every string.
decodePolyline(encoded) ==
  [error |-> "none", points |-> decodeFrom(encoded, 0, 0, 0)]

(***************************************************************************)
(* Values the variables of the other parts keep while one part runs.       *)
(***************************************************************************)
NoRoute == [error |-> "pending", points |-> <<>>]

PolyIdle ==
  /\ polyPc = "idle"
  /\ coords = <<>>
  /\ route_geometry = <<>>
  /\ routeCoords = NoRoute

(***************************************************************************)
(* Route geometry: the routing provider encodes the route, the route       *)
(* screen decodes the route_geometry it received.                          *)
(***************************************************************************)
PolyInit ==
  /\ polyPc = "request"
  /\ coords \in CoordSeqs
  /\ route_geometry = <<>>
  /\ routeCoords = NoRoute

\* The response carries the complete encoding of the route.
ReceiveRoute ==
  /\ polyPc = "request"
  /\ route_geometry' = encodePolyline(coords)
  /\ polyPc' = "received"
  /\ UNCHANGED <<coords, routeCoords>>

\* The response carries only the first n characters of the encoding.
ReceiveTruncatedRoute ==
  /\ polyPc = "request"
  /\ \E n \in 1..(Len(encodePolyline(coords)) - 1) :
        route_geometry' = SubSeq(encodePolyline(coords), 1, n)
  /\ polyPc' = "received"
  /\ UNCHANGED <<coords, routeCoords>>

\* const routeCoords = decodePolyline(routeGeometry)
DecodeRoute ==
  /\ polyPc = "received"
  /\ routeCoords' = decodePolyline(route_geometry)
  /\ polyPc' = "decoded"
  /\ UNCHANGED <<coords, route_geometry>>

(***************************************************************************)
(* Route-level alert list.                                                 *)
(***************************************************************************)
\* Alerts the weather provider may attach to a waypoint: one id seen with
\* two headlines, and a second id sharing a headline with the first.
AlertPool ==
  {[id |-> "urn:alert:1", headline |-> "Winter Storm Warning",
    severity |-> "Severe", event |-> "Winter Storm Warning"],
   [id |-> "urn:alert:1", headline |-> "Winter Storm Warning extended",
    severity |-> "Severe", event |-> "Winter Storm Warning"],
   [id |-> "urn:alert:2", headline |-> "Winter Storm Warning",
    severity |-> "Severe", event |-> "Winter Storm Warning"]}

AlertLists == SeqsUpTo(AlertPool, MaxAlerts)

WaypointLists ==
  SeqsUpTo([weather : {<<>>}, alerts : AlertLists], MaxWaypoints)

\* routeData.waypoints.flatMap((wp) => wp.alerts)
RECURSIVE flatMapAlerts(_)
flatMapAlerts(wps) ==
  IF wps = <<>> THEN <<>>
  ELSE Head(wps).alerts \o flatMapAlerts(Tail(wps))

\* Variant of sameAlert that compares the headline text.
sameAlertByHeadline(a, alert) == a.headline = alert.headline

\* (a) => a.id === alert.id
sameAlert(a, alert) == a.id = alert.id

\* self.findIndex(pred): 0-based index of the first match, -1 without one.
findIndex(self, alert) ==
  IF \E i \in 1..Len(self) : sameAlert(self[i], alert)
  THEN (CHOOSE i \in 1..Len(self) :
          /\ sameAlert(self[i], alert)
          /\ \A j \in 1..(i - 1) : ~sameAlert(self[j], alert)) - 1
  ELSE -1

\* Variant of keepAlert with !== for ===.
keepAlertInverted(alert, index, self) == index # findIndex(self, alert)

\* (alert, index, self) => index === self.findIndex(...)
keepAlert(alert, index, self) == index = findIndex(self, alert)

RECURSIVE filterFrom(_, _)
filterFrom(self, index) ==
  IF index >= Len(self) THEN <<>>
  ELSE (IF keepAlert(self[index + 1], index, self)
        THEN <<self[index + 1]>> ELSE <<>>)
       \o filterFrom(self, index + 1)

\* allAlerts.filter(...)
uniqueAlertsOf(allAlerts) == filterFrom(allAlerts, 0)

AlertIdle ==
  /\ alertPc = "idle"
  /\ waypoints = <<>>
  /\ uniqueAlerts = <<>>

AlertInit ==
  /\ alertPc = "loaded"
  /\ waypoints \in WaypointLists
  /\ uniqueAlerts = <<>>

\* Render of the route screen with routeData set.
RenderAlerts ==
  /\ alertPc = "loaded"
  /\ uniqueAlerts' = uniqueAlertsOf(flatMapAlerts(waypoints))
  /\ alertPc' = "rendered"
  /\ UNCHANGED waypoints

(***************************************************************************)
(* Text: a string is a sequence of one-character strings.                  *)
(***************************************************************************)
UpperChars == <<"A", "B", "C", "D", "E", "F", "G", "H", "I", "J", "K", "L", "M", "N", "O", "P", "Q", "R", "S", "T", "U", "V", "W", "X", "Y", "Z">>
LowerChars == <<"a", "b", "c", "d", "e", "f", "g", "h", "i", "j", "k", "l", "m", "n", "o", "p", "q", "r", "s", "t", "u", "v", "w", "x", "y", "z">>
DigitChars == <<"0", "1", "2", "3", "4", "5", "6", "7", "8", "9">>

toLowerChar(c) ==
  IF \E i \in 1..26 : UpperChars[i] = c
  THEN LowerChars[CHOOSE i \in 1..26 : UpperChars[i] = c]
  ELSE c

\* String.prototype.toLowerCase
toLowerCase(str) == [i \in 1..Len(str) |-> toLowerChar(str[i])]

\* String.prototype.includes
includes(str, sub) ==
  \E i \in 0..(Len(str) - Len(sub)) : SubSeq(str, i + 1, i + Len(sub)) = sub

\* An optional value: <<>> is null / undefined / NaN, <<v>> is the value v.
Null == <<>>
NaN == <<>>
Some(v) == <<v>>

isDigit(c) == \E i \in 1..10 : DigitChars[i] = c
digitVal(c) == (CHOOSE i \in 1..10 : DigitChars[i] = c) - 1

RECURSIVE skipSpaces(_)
skipSpaces(str) ==
  IF str # <<>> /\ Head(str) = " " THEN skipSpaces(Tail(str)) ELSE str

RECURSIVE readDigits(_, _)
readDigits(str, acc) ==
  IF str # <<>> /\ isDigit(Head(str))
  THEN readDigits(Tail(str), 10 * acc + digitVal(Head(str)))
  ELSE acc

\* parseInt(str): leading white space, an optional sign, then decimal
\* digits up to the first other character; NaN without a digit.
parseInt(str) ==
  LET s1   == skipSpaces(str)
      neg  == s1 # <<>> /\ Head(s1) = "-"
      s2   == IF s1 # <<>> /\ Head(s1) \in {"-", "+"} THEN Tail(s1) ELSE s1
  IN  IF s2 # <<>> /\ isDigit(Head(s2))
      THEN Some(IF neg THEN -readDigits(s2, 0) ELSE readDigits(s2, 0))
      ELSE NaN

(***************************************************************************)
(* Keywords of the road-condition rules.                                   *)
(***************************************************************************)
kw_rain == <<"r", "a", "i", "n">>
kw_freezing == <<"f", "r", "e", "e", "z", "i", "n", "g">>
kw_drizzle == <<"d", "r", "i", "z", "z", "l", "e">>
kw_snow == <<"s", "n", "o", "w">>
kw_fog == <<"f", "o", "g">>
kw_mist == <<"m", "i", "s", "t">>
kw_haze == <<"h", "a", "z", "e">>
kw_shower == <<"s", "h", "o", "w", "e", "r">>
kw_thunder == <<"t", "h", "u", "n", "d", "e", "r">>
kw_storm == <<"s", "t", "o", "r", "m">>

(***************************************************************************)
(* Weather snapshots the provider may deliver for a waypoint.              *)
(***************************************************************************)
Words ==
  {<<"R", "a", "i", "n">>,
   <<"F", "r", "e", "e", "z", "i", "n", "g">>,
   <<"D", "r", "i", "z", "z", "l", "e">>,
   <<"S", "n", "o", "w">>,
   <<"F", "o", "g">>,
   <<"M", "i", "s", "t">>,
   <<"H", "a", "z", "e">>,
   <<"S", "h", "o", "w", "e", "r", "s">>,
   <<"T", "h", "u", "n", "d", "e", "r", "s", "t", "o", "r", "m", "s">>,
   <<"C", "l", "e", "a", "r">>}

\* null, the empty text, one word, or two words separated by a space.
ConditionTexts ==
  {Null, Some(<<>>)}
  \cup {Some(w) : w \in Words}
  \cup {Some(w1 \o <<" ">> \o w2) : w1 \in Words, w2 \in Words}

Temperatures == {Null} \cup {Some(n) : n \in {-10, 0, 32, 33, 40, 41, 70}}

WindTexts ==
  {Null, Some(<<>>),
   Some(<<"3", "0", " ", "m", "p", "h">>),
   Some(<<"3", "1", " ", "m", "p", "h">>),
   Some(<<"1", "0", " ", "t", "o", " ", "3", "5", " ", "m", "p", "h">>),
   Some(<<"C", "a", "l", "m">>)}

Weathers ==
  {Null} \cup
  {Some(w) : w \in [temperature : Temperatures,
                    conditions : ConditionTexts,
                    wind_speed : WindTexts]}

\* Alerts of a waypoint on the conditions tab: event, headline, severity.
RoadAlertPool ==
  {[event |-> "Wind Advisory", headline |-> "Wind Advisory issued",
    severity |-> "Minor"],
   [event |-> "Winter Storm Warning", headline |-> "Winter Storm Warning issued",
    severity |-> "Severe"],
   [event |-> "Blizzard Warning", headline |-> "Blizzard Warning issued",
    severity |-> "Extreme"]}

RoadWaypoints ==
  [weather : Weathers, alerts : SeqsUpTo(RoadAlertPool, MaxAlerts)]

(***************************************************************************)
(* Road surface condition of one waypoint (conditions tab).                *)
(***************************************************************************)
DefaultTemp == 50
FreezingPoint == 32
SlushLimit == 40
WindLimit == 30

\* const temp = wp.weather?.temperature || 50
tempOf(w) ==
  IF w.weather = Null THEN DefaultTemp
  ELSE IF w.weather[1].temperature = Null THEN DefaultTemp
  ELSE IF w.weather[1].temperature[1] = 0 THEN DefaultTemp
  ELSE w.weather[1].temperature[1]

\* const conditions = (wp.weather?.conditions || '').toLowerCase()
conditionsOf(w) ==
  IF w.weather = Null THEN <<>>
  ELSE IF w.weather[1].conditions = Null THEN <<>>
  ELSE toLowerCase(w.weather[1].conditions[1])

\* Variant of hasAlertOf with an off-by-one length test.
hasAlertOfSeveral(w) == Len(w.alerts) > 1

\* const hasAlert = wp.alerts.length > 0
hasAlertOf(w) == Len(w.alerts) > 0

\* const windSpeed = wp.weather?.wind_speed ? parseInt(wp.weather.wind_speed) : 0
windSpeedOf(w) ==
  IF w.weather = Null THEN Some(0)
  ELSE IF w.weather[1].wind_speed = Null THEN Some(0)
  ELSE IF w.weather[1].wind_speed[1] = <<>> THEN Some(0)
  ELSE parseInt(w.weather[1].wind_speed[1])

\* The conditions of the else-if chain, in source order.
icyCond(temp, conditions) ==
  /\ temp <= FreezingPoint
  /\ (includes(conditions, kw_rain) \/ includes(conditions, kw_freezing)
      \/ includes(conditions, kw_drizzle))

snowCond(temp, conditions) ==
  temp <= FreezingPoint /\ includes(conditions, kw_snow)

slushCond(temp, conditions) ==
  temp > FreezingPoint /\ temp <= SlushLimit /\ includes(conditions, kw_snow)

fogCond(conditions) ==
  includes(conditions, kw_fog) \/ includes(conditions, kw_mist)

wetCond(conditions) ==
  includes(conditions, kw_rain) \/ includes(conditions, kw_shower)
  \/ includes(conditions, kw_drizzle)

stormCond(conditions) ==
  includes(conditions, kw_thunder) \/ includes(conditions, kw_storm)

\* windSpeed > 30; a comparison with NaN is false.
windyCond(windSpeed) == windSpeed # NaN /\ windSpeed[1] > WindLimit

\* Variant of branchOf that tests the storm branch before the wet branch.
branchOfStormFirst(hasAlert, icy, snow, slush, fog, wet, storm, windy) ==
  IF hasAlert THEN "HAZARD"
  ELSE IF icy THEN "ICY"
  ELSE IF snow THEN "SNOW"
  ELSE IF slush THEN "SLUSH"
  ELSE IF fog THEN "FOG"
  ELSE IF storm THEN "STORM"
  ELSE IF wet THEN "WET"
  ELSE IF windy THEN "WINDY"
  ELSE "DRY"

\* The if / else-if chain: the branch taken.
branchOf(hasAlert, icy, snow, slush, fog, wet, storm, windy) ==
  IF hasAlert THEN "HAZARD"
  ELSE IF icy THEN "ICY"
  ELSE IF snow THEN "SNOW"
  ELSE IF slush THEN "SLUSH"
  ELSE IF fog THEN "FOG"
  ELSE IF wet THEN "WET"
  ELSE IF storm THEN "STORM"
  ELSE IF windy THEN "WINDY"
  ELSE "DRY"

\* wp.alerts[0]?.event || 'Weather alert active'
alertDesc(alerts) ==
  IF alerts = <<>> THEN "Weather alert active"
  ELSE IF alerts[1].event = "" THEN "Weather alert active"
  ELSE alerts[1].event

numText(n) == IF n = NaN THEN "NaN" ELSE ToString(n[1])

\* The assignments of each branch (the degree sign is written "deg").
cardOf(label, w, temp, windSpeed) ==
  CASE label = "HAZARD" ->
         [condLabel |-> "HAZARD", condColor |-> "#ef4444",
          condDesc |-> <<alertDesc(w.alerts)>>,
          roadSurface |-> "Check conditions before driving"]
    [] label = "ICY" ->
         [condLabel |-> "ICY", condColor |-> "#ef4444",
          condDesc |-> <<"BLACK ICE LIKELY - ", ToString(temp), "degF">>,
          roadSurface |-> "Roads may be ice-covered. Reduce speed significantly."]
    [] label = "SNOW" ->
         [condLabel |-> "SNOW", condColor |-> "#60a5fa",
          condDesc |-> <<"SNOW-COVERED ROADS - ", ToString(temp), "degF">>,
          roadSurface |-> "Snow accumulation on roadway. Use caution."]
    [] label = "SLUSH" ->
         [condLabel |-> "SLUSH", condColor |-> "#f59e0b",
          condDesc |-> <<"SLUSHY CONDITIONS - ", ToString(temp), "degF">>,
          roadSurface |-> "Wet, slushy roads. Reduced traction."]
    [] label = "FOG" ->
         [condLabel |-> "FOG", condColor |-> "#9ca3af",
          condDesc |-> <<"LIMITED VISIBILITY">>,
          roadSurface |-> "Use low beams. Increase following distance."]
    [] label = "WET" ->
         [condLabel |-> "WET", condColor |-> "#3b82f6",
          condDesc |-> <<"WET ROADS">>,
          roadSurface |-> "Reduced traction. Watch for hydroplaning."]
    [] label = "STORM" ->
         [condLabel |-> "STORM", condColor |-> "#7c3aed",
          condDesc |-> <<"STORM CONDITIONS">>,
          roadSurface |-> "Heavy rain, possible flooding. Consider delaying."]
    [] label = "WINDY" ->
         [condLabel |-> "WINDY", condColor |-> "#f59e0b",
          condDesc |-> <<"HIGH WINDS - ", numText(windSpeed), " mph">>,
          roadSurface |-> "Crosswinds may affect vehicle control."]
    [] OTHER ->
         [condLabel |-> "DRY", condColor |-> "#22c55e",
          condDesc |-> <<"Roads clear and dry">>,
          roadSurface |-> "Normal driving conditions"]

\* The body of routeData.waypoints.map((wp, index) => ...) up to the card.
roadCondition(w) ==
  LET temp       == tempOf(w)
      conditions == conditionsOf(w)
      hasAlert   == hasAlertOf(w)
      windSpeed  == windSpeedOf(w)
      label      == branchOf(hasAlert,
                             icyCond(temp, conditions),
                             snowCond(temp, conditions),
                             slushCond(temp, conditions),
                             fogCond(conditions),
                             wetCond(conditions),
                             stormCond(conditions),
                             windyCond(windSpeed))
  IN  cardOf(label, w, temp, windSpeed)

NoCard ==
  [condLabel |-> "none", condColor |-> "none", condDesc |-> <<>>,
   roadSurface |-> "none"]

NoWaypoint == [weather |-> Null, alerts |-> <<>>]

RoadIdle ==
  /\ roadPc = "idle"
  /\ wp = NoWaypoint
  /\ card = NoCard

RoadInit ==
  /\ roadPc = "loaded"
  /\ wp \in RoadWaypoints
  /\ card = NoCard

\* The conditions tab renders the card of the waypoint.
RenderConditionCard ==
  /\ roadPc = "loaded"
  /\ card' = roadCondition(wp)
  /\ roadPc' = "rendered"
  /\ UNCHANGED wp

(***************************************************************************)
(* Home screen: the local route store, its remote sync and the favourite   *)
(* and recent handlers.  A route is [id, _id, route_id, origin,            *)
(* destination]; an absent id field is the empty string.                   *)
(***************************************************************************)
RecentsLimit == 10

\* Favourites the backend accepts in one run of the model.
MaxPosts == 2

\* String.prototype.trim
trim(str) ==
  IF \A i \in 1..Len(str) : str[i] = " " THEN <<>>
  ELSE LET first == CHOOSE i \in 1..Len(str) :
                      str[i] # " " /\ \A j \in 1..(i - 1) : str[j] = " "
           last  == CHOOSE i \in 1..Len(str) :
                      str[i] # " " /\ \A j \in (i + 1)..Len(str) : str[j] = " "
       IN  SubSeq(str, first, last)

\* (s || '').trim().toLowerCase()
norm(s) == toLowerCase(trim(s))

\* norm(a.origin) === norm(b.origin) && norm(a.destination) === norm(b.destination)
sameRoute(a, b) ==
  norm(a.origin) = norm(b.origin) /\ norm(a.destination) = norm(b.destination)

\* route.id || route._id || route.route_id || ''
getRouteId(route) ==
  IF route.id # "" THEN route.id
  ELSE IF route._id # "" THEN route._id
  ELSE route.route_id

\* A response body is [shape, list]: the list itself ("array"), the list
\* under the key routes, items or data, or a body without list ("other").
normalizeRoutes(data) ==
  IF data.shape \in {"array", "routes", "items", "data"} THEN data.list ELSE <<>>

\* arr.slice(0, n)
sliceTo(arr, n) == SubSeq(arr, 1, IF Len(arr) < n THEN Len(arr) ELSE n)

\* (r) => !sameRoute(r, route)
keepRoute(r, route) == ~sameRoute(r, route)

\* arr.filter((r) => !sameRoute(r, route))
RECURSIVE withoutRoute(_, _)
withoutRoute(arr, route) ==
  IF arr = <<>> THEN <<>>
  ELSE (IF keepRoute(Head(arr), route) THEN <<Head(arr)>> ELSE <<>>)
       \o withoutRoute(Tail(arr), route)

\* arr.some((r) => sameRoute(r, route))
someSameRoute(arr, route) == \E i \in 1..Len(arr) : sameRoute(arr[i], route)

\* Variant of hasRoutes that lets an empty list through.
hasRoutesAlways(routes) == Len(routes) >= 0

\* routes.length > 0
hasRoutes(routes) == Len(routes) > 0

LocalRoute(o, d) ==
  [id |-> "", _id |-> "", route_id |-> "", origin |-> o, destination |-> d]

ServerRoute(id, o, d) ==
  [id |-> "", _id |-> id, route_id |-> "", origin |-> o, destination |-> d]

EmptyStore == [favorites |-> <<>>, recents |-> <<>>]


(***************************************************************************)
(* Calls in flight.  A handler may be called again while an earlier call   *)
(* of it awaits, so the calls of one function that have not returned are   *)
(* kept in a bag; a call is the record of its position and its locals.     *)
(* Each await is a step of its own and the awaits of different calls       *)
(* complete in any order.                                                  *)
(***************************************************************************)
\* Calls of the handlers and fetches of a screen that can be in flight
\* together.
MaxCalls == 2

\* refreshFromLocal calls that can be in flight together.
MaxRefresh == 2

\* The calls in flight and a new call c.
start(calls, c) == calls (+) SetToBag({c})

\* The calls in flight without the call c, which has returned.
end(calls, c) == calls (-) SetToBag({c})

\* The call c has moved on and is now d.
step(calls, c, d) == start(end(calls, c), d)

\* The calls of the home screen in flight, refreshFromLocal apart.
homeCalls ==
  BagCardinality(frCalls) + BagCardinality(ffCalls) + BagCardinality(addCalls)
    + BagCardinality(rmCalls) + BagCardinality(gwCalls)

(***************************************************************************)
(* readStore, writeStore.  Both catch what AsyncStorage throws.            *)
(***************************************************************************)
\* What a call of readStore may return: the stored RouteStore, or the
\* empty one of the catch when getItem rejects.
readStore == {store, EmptyStore}

\* What the item may hold after writeStore(next): next, or what it held
\* when setItem rejects.
writeStore(next) == {next, store}

(***************************************************************************)
(* refreshFromLocal                                                        *)
(***************************************************************************)
\* The call up to the await of readStore.
rfCall ==
  /\ rfCalls < MaxRefresh
  /\ rfCalls' = rfCalls + 1

\* const store = await readStore(); setRecentRoutes(...); setFavoriteRoutes(...)
RefreshComplete ==
  /\ rfCalls > 0
  /\ \E read \in readStore :
       /\ recentRoutes' = read.recents
       /\ favoriteRoutes' = read.favorites
  /\ rfCalls' = rfCalls - 1
  /\ UNCHANGED <<store, listLoading>>

(***************************************************************************)
(* fetchRecentRoutesRemote.  frFailed tells that a request for the history *)
(* has failed.                                                             *)
(***************************************************************************)
\* The call up to the await of axios.get.
frStart ==
  /\ listLoading' = TRUE
  /\ frCalls' = start(frCalls, [pc |-> "get", routes |-> <<>>, store |-> EmptyStore])

\* axios.get rejects: catch, finally.
FetchRecentsFail(c) ==
  /\ c.pc = "get"
  /\ frCalls' = end(frCalls, c)
  /\ frFailed' = TRUE
  /\ listLoading' = FALSE
  /\ UNCHANGED <<store, recentRoutes, favoriteRoutes>>

\* axios.get resolves with the history in one of the response shapes.
FetchRecentsResponse(c) ==
  /\ c.pc = "get"
  /\ \E shape \in {"array", "routes", "items", "data", "other"} :
       LET routes == normalizeRoutes([shape |-> shape, list |-> remoteHistory])
       IN  IF hasRoutes(routes)
           THEN /\ recentRoutes' = sliceTo(routes, RecentsLimit)
                /\ frCalls' = step(frCalls, c, [c EXCEPT !.routes = routes, !.pc = "read"])
                /\ UNCHANGED listLoading
           ELSE /\ listLoading' = FALSE
                /\ frCalls' = end(frCalls, c)
                              /\ UNCHANGED recentRoutes
  /\ UNCHANGED <<store, favoriteRoutes>>

\* const store = await readStore()
FetchRecentsRead(c) ==
  /\ c.pc = "read"
  /\ \E read \in readStore :
       frCalls' = step(frCalls, c, [c EXCEPT !.store = read, !.pc = "write"])
  /\ UNCHANGED <<store, recentRoutes, favoriteRoutes, listLoading>>

\* await writeStore({ ...store, recents: top }); finally
FetchRecentsWrite(c) ==
  /\ c.pc = "write"
  /\ store' \in writeStore([c.store EXCEPT !.recents = sliceTo(c.routes, RecentsLimit)])
  /\ frCalls' = end(frCalls, c)
  /\ listLoading' = FALSE
  /\ UNCHANGED <<recentRoutes, favoriteRoutes>>

(***************************************************************************)
(* fetchFavoriteRoutesRemote.  The field after of a call holds the routes  *)
(* that removeFavorite had removed from the local store when the call      *)
(* started.                                                                *)
(***************************************************************************)
\* The call up to the await of axios.get.
ffStart ==
  /\ listLoading' = TRUE
  /\ ffCalls' = start(ffCalls, [pc |-> "get", routes |-> <<>>,
                                store |-> EmptyStore, after |-> removed])

FetchFavoritesFail(c) ==
  /\ c.pc = "get"
  /\ ffCalls' = end(ffCalls, c)
  /\ listLoading' = FALSE
  /\ UNCHANGED <<store, favoriteRoutes, recentRoutes>>

FetchFavoritesResponse(c) ==
  /\ c.pc = "get"
  /\ \E shape \in {"array", "routes", "items", "data", "other"} :
       LET routes == normalizeRoutes([shape |-> shape, list |-> remoteFavs])
       IN  IF hasRoutes(routes)
           THEN /\ favoriteRoutes' = routes
                /\ ffCalls' = step(ffCalls, c, [c EXCEPT !.routes = routes, !.pc = "read"])
                /\ UNCHANGED listLoading
           ELSE /\ listLoading' = FALSE
                /\ ffCalls' = end(ffCalls, c)
                              /\ UNCHANGED favoriteRoutes
  /\ UNCHANGED <<store, recentRoutes>>

FetchFavoritesRead(c) ==
  /\ c.pc = "read"
  /\ \E read \in readStore :
       ffCalls' = step(ffCalls, c, [c EXCEPT !.store = read, !.pc = "write"])
  /\ UNCHANGED <<store, favoriteRoutes, recentRoutes, listLoading>>

\* await writeStore({ ...store, favorites: routes }); finally
FetchFavoritesWrite(c) ==
  /\ c.pc = "write"
  /\ store' \in writeStore([c.store EXCEPT !.favorites = c.routes])
  /\ ffCalls' = end(ffCalls, c)
  /\ listLoading' = FALSE
  /\ UNCHANGED <<favoriteRoutes, recentRoutes>>


(***************************************************************************)
(* Mount and focus effects, the tabs and the inputs.                       *)
(***************************************************************************)
\* useEffect(() => { void refreshFromLocal(); void Promise.all([...]) }, [])
\* followed by the first run of the focus effect.
Mount ==
  /\ ~mounted
  /\ mounted' = TRUE
  /\ rfCalls + 2 <= MaxRefresh
  /\ rfCalls' = rfCalls + 2
  /\ frStart
  /\ ffStart
  /\ UNCHANGED <<store, recentRoutes, favoriteRoutes>>

\* useFocusEffect: the screen regains focus.
Focus ==
  /\ mounted
  /\ rfCall
  /\ UNCHANGED <<store, recentRoutes, favoriteRoutes, listLoading>>

\* Favorites tab onPress
FavoritesTabPress ==
  /\ mounted
  /\ showFavorites' = TRUE
  /\ homeCalls < MaxCalls
  /\ rfCall
  /\ ffStart
  /\ UNCHANGED <<store, recentRoutes, favoriteRoutes>>

\* Recent tab onPress
RecentTabPress ==
  /\ mounted
  /\ showFavorites' = FALSE
  /\ homeCalls < MaxCalls
  /\ rfCall
  /\ frStart
  /\ UNCHANGED <<store, recentRoutes, favoriteRoutes>>

\* Texts the user may type into the origin input.
OriginTexts == {<<"A">>, <<" ", "a", " ">>, <<" ">>}

\* Texts the user may type into the destination input.
DestinationTexts == {<<"Z">>}

\* onChangeText={setOrigin}
TypeOrigin ==
  /\ mounted
  /\ \E t \in OriginTexts : t # origin /\ origin' = t

\* onChangeText={setDestination}
TypeDestination ==
  /\ mounted
  /\ \E t \in DestinationTexts : t # destination /\ destination' = t

\* showFavorites ? favoriteRoutes : recentRoutes
routesToShow == IF showFavorites THEN favoriteRoutes ELSE recentRoutes

\* The tap on an entry of the list, which is rendered when it is not
\* loading.
handleSelectRoute ==
  /\ mounted
  /\ ~listLoading
  /\ \E k \in 1..Len(routesToShow) :
       /\ origin' = routesToShow[k].origin
       /\ destination' = routesToShow[k].destination
  /\ error' = ""

swapLocations ==
  /\ mounted
  /\ origin' = destination
  /\ destination' = origin

\* !origin.trim() || !destination.trim()
inputsBlank == trim(origin) = <<>> \/ trim(destination) = <<>>


(***************************************************************************)
(* addToFavorites, addFavoriteLocal                                        *)
(***************************************************************************)
\* With a blank input the handler sets the error and returns; otherwise it
\* runs up to the await of readStore in addFavoriteLocal.
AddToFavoritesCall ==
  /\ mounted
  /\ IF inputsBlank
     THEN /\ error' = "Enter a route first to save as favorite"
          /\ UNCHANGED addCalls
     ELSE /\ homeCalls < MaxCalls
          /\ error' = ""
          /\ addCalls' = start(addCalls,
                               [pc |-> "read",
                                fav |-> LocalRoute(trim(origin), trim(destination)),
                                store |-> EmptyStore])

AddFavoriteRead(c) ==
  /\ c.pc = "read"
  /\ \E read \in readStore :
       addCalls' = step(addCalls, c, [c EXCEPT !.store = read, !.pc = "write"])
  /\ UNCHANGED <<store, favoriteRoutes, showFavorites, removed>>

\* writeStore, setFavoriteRoutes, then up to the await of axios.post.  A
\* route that the store holds again no longer counts as removed.
AddFavoriteWrite(c) ==
  /\ c.pc = "write"
  /\ LET exists == someSameRoute(c.store.favorites, c.fav)
         favs   == IF exists THEN c.store.favorites
                   ELSE <<c.fav>> \o c.store.favorites
     IN  /\ store' \in writeStore([c.store EXCEPT !.favorites = favs])
         /\ favoriteRoutes' = favs
  /\ showFavorites' = TRUE
  /\ addCalls' = step(addCalls, c, [c EXCEPT !.store = EmptyStore, !.pc = "post"])
  /\ removed' = IF someSameRoute(store'.favorites, c.fav)
                THEN {r \in removed : ~sameRoute(r, c.fav)} ELSE removed

\* The backend stores the favourite under a new id; the handler then starts
\* fetchFavoriteRoutesRemote without awaiting it.
AddFavoritePostOk(c) ==
  /\ c.pc = "post"
  /\ remoteSeq < MaxPosts
  /\ remoteSeq' = remoteSeq + 1
  /\ remoteFavs' = Append(remoteFavs,
                          ServerRoute(ToString(remoteSeq + 1),
                                      c.fav.origin, c.fav.destination))
  /\ ffStart
  /\ addCalls' = end(addCalls, c)
  /\ UNCHANGED <<store, favoriteRoutes, showFavorites, removed>>

AddFavoritePostFail(c) ==
  /\ c.pc = "post"
  /\ addCalls' = end(addCalls, c)
  /\ UNCHANGED <<store, favoriteRoutes, showFavorites, removed>>

(***************************************************************************)
(* removeFavorite, removeFavoriteLocal.  removed holds the routes that a   *)
(* call has removed from the local store and that have not been saved      *)
(* again since.                                                            *)
(***************************************************************************)
\* The trash button of an entry of the favourites, which are rendered when
\* the list is not loading; up to the await of readStore.
RemoveFavoriteCall ==
  /\ mounted
  /\ ~listLoading
  /\ showFavorites
  /\ homeCalls < MaxCalls
  /\ \E k \in 1..Len(favoriteRoutes) :
       rmCalls' = start(rmCalls, [pc |-> "read", route |-> favoriteRoutes[k],
                                  store |-> EmptyStore])
  /\ error' = ""

RemoveFavoriteRead(c) ==
  /\ c.pc = "read"
  /\ \E read \in readStore :
       rmCalls' = step(rmCalls, c, [c EXCEPT !.store = read, !.pc = "write"])
  /\ UNCHANGED <<store, favoriteRoutes, removed>>

\* writeStore, setFavoriteRoutes, setSaveMessage, then return without an
\* id or go on to the await of axios.delete.
RemoveFavoriteWrite(c) ==
  /\ c.pc = "write"
  /\ LET favs == withoutRoute(c.store.favorites, c.route)
     IN  /\ store' \in writeStore([c.store EXCEPT !.favorites = favs])
         /\ favoriteRoutes' = favs
  /\ rmCalls' = IF getRouteId(c.route) = "" THEN end(rmCalls, c)
                ELSE step(rmCalls, c, [c EXCEPT !.store = EmptyStore, !.pc = "delete"])
  /\ removed' = IF someSameRoute(store'.favorites, c.route) THEN removed
                ELSE removed \cup {c.route}

RECURSIVE withoutId(_, _)
withoutId(list, id) ==
  IF list = <<>> THEN <<>>
  ELSE (IF getRouteId(Head(list)) = id THEN <<>> ELSE <<Head(list)>>)
       \o withoutId(Tail(list), id)

\* The backend deletes the favourite; the handler starts
\* fetchFavoriteRoutesRemote without awaiting it.
RemoveFavoriteDeleteOk(c) ==
  /\ c.pc = "delete"
  /\ remoteFavs' = withoutId(remoteFavs, getRouteId(c.route))
  /\ rmCalls' = end(rmCalls, c)
  /\ ffStart
  /\ UNCHANGED <<store, favoriteRoutes, removed>>

RemoveFavoriteDeleteFail(c) ==
  /\ c.pc = "delete"
  /\ rmCalls' = end(rmCalls, c)
  /\ UNCHANGED <<store, favoriteRoutes, removed>>


(***************************************************************************)
(* handleGetWeather, upsertRecentLocal.  A rejection is [detail,           *)
(* dataMessage, message]: err.response.data.detail,                        *)
(* err.response.data.message and err.message, the empty string when        *)
(* absent.                                                                 *)
(***************************************************************************)
\* Rejections of the weather request.
PostErrors ==
  {[detail |-> "Route not found", dataMessage |-> "",
    message |-> "Request failed with status code 404"],
   [detail |-> "", dataMessage |-> "", message |-> "Network Error"],
   [detail |-> "", dataMessage |-> "", message |-> ""]}

\* apiDetail || 'Failed to get weather data. Please try again.'
errorText(err) ==
  IF err.detail # "" THEN err.detail
  ELSE IF err.dataMessage # "" THEN err.dataMessage
  ELSE IF err.message # "" THEN err.message
  ELSE "Failed to get weather data. Please try again."

\* With a blank input the handler sets the error and returns; otherwise it
\* runs up to the await of axios.post.
GetWeatherCall ==
  /\ mounted
  /\ IF inputsBlank
     THEN /\ error' = "Please enter both origin and destination"
          /\ UNCHANGED <<gwCalls, loading>>
     ELSE /\ homeCalls < MaxCalls
          /\ loading' = TRUE
          /\ error' = ""
          /\ gwCalls' = start(gwCalls,
                             [pc |-> "post",
                              route |-> LocalRoute(trim(origin), trim(destination)),
                              store |-> EmptyStore])
  /\ UNCHANGED navigated

\* axios.post rejects: catch, finally.
GetWeatherPostFail(c) ==
  /\ c.pc = "post"
  /\ \E err \in PostErrors : error' = errorText(err)
  /\ loading' = FALSE
  /\ gwCalls' = end(gwCalls, c)
  /\ UNCHANGED <<navigated, store, recentRoutes>>

\* axios.post resolves; the handler awaits setItem(LAST_ROUTE_KEY, ...).
GetWeatherPostOk(c) ==
  /\ c.pc = "post"
  /\ gwCalls' = step(gwCalls, c, [c EXCEPT !.pc = "cache"])
  /\ UNCHANGED <<navigated, store, recentRoutes, error, loading>>

\* setItem(LAST_ROUTE_KEY, ...) rejects: catch, finally.
GetWeatherCacheFail(c) ==
  /\ c.pc = "cache"
  /\ error' = errorText([detail |-> "", dataMessage |-> "", message |-> "disk full"])
  /\ loading' = FALSE
  /\ gwCalls' = end(gwCalls, c)
  /\ UNCHANGED <<navigated, store, recentRoutes>>

\* setItem(LAST_ROUTE_KEY, ...) completes; upsertRecentLocal awaits readStore.
GetWeatherCached(c) ==
  /\ c.pc = "cache"
  /\ gwCalls' = step(gwCalls, c, [c EXCEPT !.pc = "read"])
  /\ UNCHANGED <<navigated, store, recentRoutes, error, loading>>

GetWeatherRead(c) ==
  /\ c.pc = "read"
  /\ \E read \in readStore :
       gwCalls' = step(gwCalls, c, [c EXCEPT !.store = read, !.pc = "write"])
  /\ UNCHANGED <<navigated, store, recentRoutes, error, loading>>

\* writeStore, setRecentRoutes, router.push, finally
GetWeatherWrite(c) ==
  /\ c.pc = "write"
  /\ LET deduped == sliceTo(<<c.route>> \o withoutRoute(c.store.recents, c.route),
                            RecentsLimit)
     IN  /\ store' \in writeStore([c.store EXCEPT !.recents = deduped])
         /\ recentRoutes' = deduped
  /\ navigated' = TRUE
  /\ loading' = FALSE
  /\ gwCalls' = end(gwCalls, c)
  /\ UNCHANGED error


(***************************************************************************)
(* Initial states of the home screen.                                      *)
(***************************************************************************)
\* No call of the home screen is in flight and nothing has been typed.
\* Before the mount the lists are empty; once the mount effect has
\* finished they show the store.
HomeAtRest ==
  /\ rfCalls = 0
  /\ frCalls = EmptyBag /\ frFailed = FALSE
  /\ ffCalls = EmptyBag
  /\ addCalls = EmptyBag
  /\ rmCalls = EmptyBag /\ removed = {}
  /\ gwCalls = EmptyBag
  /\ origin = <<>> /\ destination = <<>>
  /\ error = ""
  /\ showFavorites = FALSE /\ loading = FALSE /\ navigated = FALSE
  /\ listLoading = FALSE

\* The screen of a fresh installation before it mounts.
HomeIdle ==
  /\ HomeAtRest
  /\ mounted = FALSE
  /\ recentRoutes = <<>> /\ favoriteRoutes = <<>>
  /\ store = EmptyStore
  /\ remoteFavs = <<>> /\ remoteSeq = 0
  /\ remoteHistory = <<>>


(***************************************************************************)
(* Index screen (app/index.tsx): recents and favourites kept in two        *)
(* AsyncStorage items.  A stored item is [parses, items]: whether its JSON *)
(* text parses and the parsed array (an absent item parses to the empty    *)
(* array).  A saved route is [isObject, id, origin, destination, stops,    *)
(* isFavorite]; ids are character sequences, an absent id is <<>>, an      *)
(* undefined isFavorite is <<>>, a stop is its location text.  Timestamps  *)
(* are left out.                                                           *)
(***************************************************************************)
IndexRecentsLimit == 10
FavoritesLimit == 25

\* Ids makeId can return in one run of the model.
MaxIds == 2

\* `${Date.now()}-${Math.random()...}`: any of the ids of the run.
DraftIds == {<<"t", ToString(i)>> : i \in 1..MaxIds}

SavedRoute(id, o, d, st, fav) ==
  [isObject |-> TRUE, id |-> id, origin |-> o, destination |-> d,
   stops |-> st, isFavorite |-> fav]

Stored(list) == [parses |-> TRUE, items |-> list]

\* uniqById: the items of arr whose id is not in seen and not met earlier.
RECURSIVE uniqFrom(_, _)
uniqFrom(arr, seen) ==
  IF arr = <<>> THEN <<>>
  ELSE IF Head(arr).id \in seen THEN uniqFrom(Tail(arr), seen)
  ELSE <<Head(arr)>> \o uniqFrom(Tail(arr), seen \cup {Head(arr).id})

uniqById(arr) == uniqFrom(arr, {})

\* normalizeSavedRoutes from item i on; ids[i] is what makeId returns for
\* item i if it is called.
RECURSIVE normalizeFrom(_, _, _, _)
normalizeFrom(raw, i, seen, ids) ==
  IF i > Len(raw) THEN <<>>
  ELSE IF ~raw[i].isObject THEN normalizeFrom(raw, i + 1, seen, ids)
  ELSE LET id == IF raw[i].id = <<>> \/ raw[i].id \in seen
                 THEN ids[i] ELSE raw[i].id
       IN  <<[raw[i] EXCEPT !.id = id]>>
           \o normalizeFrom(raw, i + 1, seen \cup {id}, ids)

normalizeSavedRoutes(raw, ids) == normalizeFrom(raw, 1, {}, ids)

\* stops.map(trim location).filter((s) => s.location.length > 0)
RECURSIVE cleanedStops(_)
cleanedStops(st) ==
  IF st = <<>> THEN <<>>
  ELSE (IF trim(Head(st)) = <<>> THEN <<>> ELSE <<trim(Head(st))>>)
       \o cleanedStops(Tail(st))

\* Array.prototype.join
RECURSIVE join(_, _)
join(parts, sep) ==
  IF parts = <<>> THEN <<>>
  ELSE IF Len(parts) = 1 THEN parts[1]
  ELSE parts[1] \o <<sep>> \o join(Tail(parts), sep)

\* `${o}__${d}__${stops.map(...).filter(Boolean).join("|")}`
signatureId(o, d, st) ==
  o \o <<"_", "_">> \o d \o <<"_", "_">> \o join(cleanedStops(st), "|")

\* favorites.filter((f) => f.id !== signatureId)
RECURSIVE withoutSavedId(_, _)
withoutSavedId(list, id) ==
  IF list = <<>> THEN <<>>
  ELSE (IF Head(list).id = id THEN <<>> ELSE <<Head(list)>>)
       \o withoutSavedId(Tail(list), id)

\* !o || !d
indexBlank == trim(originText) = <<>> \/ trim(destinationText) = <<>>


\* Stops the user can add in one run of the model.
MaxStops == 1

\* Texts the user may type into the origin input.
IndexOriginTexts == {<<"A">>, <<" ", "A">>, <<" ">>}

\* Texts the user may type into the destination input.
IndexDestTexts == {<<"Z">>, <<"Z", " ">>}

\* Texts the user may type into a stop input.
StopTexts == {<<"P">>, <<" ">>}

\* place_name of the suggestions the geocoder may return.
PlaceNames == {<<"P">>}

\* The calls of the index screen in flight, loadAll apart.
indexCalls ==
  BagCardinality(crCalls) + BagCardinality(tgCalls) + BagCardinality(clCalls)

\* setOrigin(text)
handleOriginChange ==
  /\ loadPc # "idle"
  /\ \E text \in IndexOriginTexts : text # originText /\ originText' = text

\* setDestination(text)
handleDestChange ==
  /\ loadPc # "idle"
  /\ \E text \in IndexDestTexts :
       text # destinationText /\ destinationText' = text

\* setStops((prev) => [...prev, { location: "", type: "stop" }])
onAddStop ==
  /\ loadPc # "idle"
  /\ Len(stops) < MaxStops
  /\ stops' = Append(stops, <<>>)

\* updateStop(idx, { location: text })
handleStopChange ==
  /\ loadPc # "idle"
  /\ \E idx \in 1..Len(stops), text \in StopTexts :
       /\ text # stops[idx]
       /\ stops' = [stops EXCEPT ![idx] = text]

\* setStops((prev) => prev.filter((_, i) => i !== idx))
removeStop ==
  /\ loadPc # "idle"
  /\ \E idx \in 1..Len(stops) :
       stops' = SubSeq(stops, 1, idx - 1) \o SubSeq(stops, idx + 1, Len(stops))

\* setOrigin(suggestion.place_name); the suggestions shown are not part of
\* the model's state.
selectOriginSuggestion ==
  /\ loadPc # "idle"
  /\ \E name \in PlaceNames : originText' = name

selectDestSuggestion ==
  /\ loadPc # "idle"
  /\ \E name \in PlaceNames : destinationText' = name

\* updateStop(idx, { location: suggestion.place_name })
selectStopSuggestion ==
  /\ loadPc # "idle"
  /\ \E idx \in 1..Len(stops), name \in PlaceNames :
       stops' = [stops EXCEPT ![idx] = name]

onClearInputs ==
  /\ loadPc # "idle"
  /\ originText' = <<>>
  /\ destinationText' = <<>>
  /\ stops' = <<>>

\* activeTab === "recent" ? recents : favorites
listData == IF activeTab = "recent" THEN recents ELSE favorites

\* The tap on a row of the list.
onLoadRouteIntoInputs ==
  /\ loadPc # "idle"
  /\ \E k \in 1..Len(listData) :
       /\ originText' = listData[k].origin
       /\ destinationText' = listData[k].destination
       /\ stops' = listData[k].stops

\* The two tabs of the list.
setActiveTab ==
  /\ loadPc # "idle"
  /\ \E tab \in {"recent", "favorites"} : tab # activeTab /\ activeTab' = tab

(***************************************************************************)
(* loadAll                                                                 *)
(***************************************************************************)
\* useEffect(() => { loadAll(); }): up to the await of the two getItem.
\* loadRaw holds the items that have been read.
LoadAllCall ==
  /\ loadPc = "idle"
  /\ loadPc' = "read"
  /\ UNCHANGED <<loadRaw, loadR, loadF>>

\* The catch of loadAll: setRecents([]); setFavorites([])
loadAllCatch ==
  /\ recents' = <<>>
  /\ favorites' = <<>>
  /\ loadPc' = "done"
  /\ loadRaw' = [recents |-> <<>>, favorites |-> <<>>]
  /\ loadR' = <<>>
  /\ loadF' = <<>>

\* The getItem of one key completes.  When it rejects the catch clears the
\* lists.  With the other still pending the call goes on waiting;
\* otherwise both items are parsed and normalised up to the await of the
\* first setItem, or JSON.parse throws and the catch clears the lists.
LoadAllGetItem(key) ==
  /\ loadPc = "read"
  /\ loadRaw[key] = <<>>
  /\ LET item == IF key = "recents" THEN storedRecents ELSE storedFavorites
         raw  == [loadRaw EXCEPT ![key] = <<item>>]
     IN  \E resolves \in BOOLEAN :
         IF ~resolves THEN loadAllCatch
         ELSE IF raw.recents = <<>> \/ raw.favorites = <<>>
         THEN /\ loadRaw' = raw
              /\ UNCHANGED <<loadPc, loadR, loadF, recents, favorites>>
         ELSE /\ loadRaw' = [recents |-> <<>>, favorites |-> <<>>]
              /\ IF raw.recents[1].parses /\ raw.favorites[1].parses
                 THEN /\ \E rIds \in [1..Len(raw.recents[1].items) -> DraftIds],
                            fIds \in [1..Len(raw.favorites[1].items) -> DraftIds] :
                           /\ loadR' = normalizeSavedRoutes(raw.recents[1].items, rIds)
                           /\ loadF' = normalizeSavedRoutes(raw.favorites[1].items, fIds)
                      /\ loadPc' = "writeRecents"
                      /\ UNCHANGED <<recents, favorites>>
                 ELSE /\ recents' = <<>>
                      /\ favorites' = <<>>
                      /\ loadPc' = "done"
                      /\ UNCHANGED <<loadR, loadF>>
  /\ UNCHANGED <<storedRecents, storedFavorites>>

\* await AsyncStorage.setItem(RECENTS_KEY, JSON.stringify(r)), or the
\* catch when it rejects
LoadAllWriteRecents ==
  /\ loadPc = "writeRecents"
  /\ \/ /\ storedRecents' = Stored(loadR)
        /\ loadPc' = "writeFavorites"
        /\ UNCHANGED <<recents, favorites, loadRaw, loadR, loadF>>
     \/ /\ loadAllCatch
        /\ UNCHANGED storedRecents
  /\ UNCHANGED storedFavorites

\* await AsyncStorage.setItem(FAVORITES_KEY, ...); setRecents(r);
\* setFavorites(f), or the catch when setItem rejects
LoadAllWriteFavorites ==
  /\ loadPc = "writeFavorites"
  /\ \/ /\ storedFavorites' = Stored(loadF)
        /\ recents' = loadR
        /\ favorites' = loadF
        /\ loadR' = <<>>
        /\ loadF' = <<>>
        /\ loadPc' = "done"
        /\ UNCHANGED loadRaw
     \/ /\ loadAllCatch
        /\ UNCHANGED storedFavorites
  /\ UNCHANGED storedRecents

(***************************************************************************)
(* onCheckRoute, buildDraft, saveRecents                                   *)
(***************************************************************************)
\* With a blank input the handler shows the alert and returns; otherwise
\* buildDraft, uniqById, slice, setRecents, up to the await of setItem.
\* crDraft is the draft of the last call, crInLoad whether loadAll was in
\* flight at that call.
CheckRouteCall ==
  /\ loadPc # "idle"
  /\ IF indexBlank
     THEN /\ alertShown' = TRUE
          /\ UNCHANGED <<crCalls, crDraft, crInLoad, recents>>
     ELSE /\ indexCalls < MaxCalls
          /\ crInLoad' = (loadPc \in {"read", "writeRecents", "writeFavorites"})
          /\ \E id \in DraftIds :
               LET draft == SavedRoute(id, trim(originText),
                                       trim(destinationText),
                                       cleanedStops(stops), <<>>)
                   nextRecents == sliceTo(uniqById(<<draft>> \o recents),
                                          IndexRecentsLimit)
               IN  /\ crDraft' = draft
                   /\ recents' = nextRecents
                   /\ crCalls' = start(crCalls, [next |-> nextRecents])
          /\ UNCHANGED alertShown
  /\ UNCHANGED <<pushed, storedRecents>>

\* setItem(RECENTS_KEY, ...) completes, or rejects and saveRecents catches
\* it; router.push
CheckRouteSaved(c) ==
  /\ storedRecents' \in {Stored(c.next), storedRecents}
  /\ pushed' = TRUE
  /\ crCalls' = end(crCalls, c)
  /\ UNCHANGED <<crDraft, crInLoad, alertShown, recents>>

(***************************************************************************)
(* onToggleFavoriteCurrent, saveFavorites                                  *)
(***************************************************************************)
\* The list the handler makes of the favourites favs for the inputs o, d
\* and s: without the favourite of their signature if there is one, with
\* it at the front and cut to the limit otherwise.
toggled(favs, o, d, s) ==
  LET sig    == signatureId(trim(o), trim(d), s)
      exists == \E i \in 1..Len(favs) : favs[i].id = sig
      newFav == SavedRoute(sig, trim(o), trim(d), cleanedStops(s), <<TRUE>>)
  IN  IF exists THEN withoutSavedId(favs, sig)
      ELSE sliceTo(uniqById(<<newFav>> \o favs), FavoritesLimit)

\* With a blank input the handler shows the alert and returns; otherwise
\* it runs up to the await of setItem in saveFavorites.
ToggleFavoriteCall ==
  /\ loadPc # "idle"
  /\ IF indexBlank
     THEN /\ alertShown' = TRUE
          /\ UNCHANGED <<tgCalls, favorites>>
     ELSE /\ indexCalls < MaxCalls
          /\ LET next == toggled(favorites, originText, destinationText, stops)
             IN  /\ favorites' = next
                 /\ tgCalls' = start(tgCalls, [next |-> next])
          /\ UNCHANGED alertShown
  /\ UNCHANGED storedFavorites

\* setItem(FAVORITES_KEY, ...) completes, or rejects and saveFavorites
\* catches it
ToggleFavoriteSaved(c) ==
  /\ storedFavorites' \in {Stored(c.next), storedFavorites}
  /\ tgCalls' = end(tgCalls, c)
  /\ UNCHANGED <<alertShown, favorites>>

(***************************************************************************)
(* The button that clears the displayed list.                              *)
(***************************************************************************)
\* Rendered when the list has entries; up to the await of removeItem.
ClearListCall ==
  /\ loadPc # "idle"
  /\ Len(listData) > 0
  /\ indexCalls < MaxCalls
  /\ clCalls' = start(clCalls, [tab |-> activeTab])

\* removeItem completes; setRecents([]) or setFavorites([]).  When it
\* rejects the handler throws and sets nothing.
ClearListRemoved(c) ==
  /\ \/ IF c.tab = "recent"
        THEN /\ storedRecents' = Stored(<<>>)
             /\ recents' = <<>>
             /\ UNCHANGED <<storedFavorites, favorites>>
        ELSE /\ storedFavorites' = Stored(<<>>)
             /\ favorites' = <<>>
             /\ UNCHANGED <<storedRecents, recents>>
     \/ UNCHANGED <<storedRecents, recents, storedFavorites, favorites>>
  /\ clCalls' = end(clCalls, c)

(***************************************************************************)
(* Initial states of the index screen.                                     *)
(***************************************************************************)
\* No handler of the index screen has run and nothing has been typed.
IndexAtRest ==
  /\ loadRaw = [recents |-> <<>>, favorites |-> <<>>]
  /\ loadR = <<>> /\ loadF = <<>>
  /\ crCalls = EmptyBag
  /\ crDraft = SavedRoute(<<>>, <<>>, <<>>, <<>>, <<>>) /\ crInLoad = FALSE
  /\ pushed = FALSE /\ alertShown = FALSE
  /\ tgCalls = EmptyBag
  /\ clCalls = EmptyBag
  /\ originText = <<>> /\ destinationText = <<>> /\ stops = <<>>
  /\ activeTab = "recent"

IndexIdle ==
  /\ IndexAtRest
  /\ loadPc = "idle"
  /\ storedRecents = Stored(<<>>) /\ storedFavorites = Stored(<<>>)
  /\ recents = <<>> /\ favorites = <<>>

Favorite(o, d) == SavedRoute(signatureId(o, d, <<>>), o, d, <<>>, <<TRUE>>)

(***************************************************************************)
(* Specifications.                                                         *)
(***************************************************************************)
PolyNext ==
  \/ ReceiveRoute /\ UNCHANGED <<alertVars, roadVars, homeVars, indexVars>>
  \/ ReceiveTruncatedRoute /\ UNCHANGED <<alertVars, roadVars, homeVars, indexVars>>
  \/ DecodeRoute /\ UNCHANGED <<alertVars, roadVars, homeVars, indexVars>>

InitPolyline == PolyInit /\ AlertIdle /\ RoadIdle /\ HomeIdle /\ IndexIdle

SpecPolyline == InitPolyline /\ [][PolyNext]_vars

AlertNext == RenderAlerts /\ UNCHANGED <<polyVars, roadVars, homeVars, indexVars>>

InitAlerts == PolyIdle /\ AlertInit /\ RoadIdle /\ HomeIdle /\ IndexIdle

SpecAlerts == InitAlerts /\ [][AlertNext]_vars

RoadNext == RenderConditionCard /\ UNCHANGED <<polyVars, alertVars, homeVars, indexVars>>

InitRoad == PolyIdle /\ AlertIdle /\ RoadInit /\ HomeIdle /\ IndexIdle

SpecRoad == InitRoad /\ [][RoadNext]_vars

(***************************************************************************)
(* The home screen: every handler, from before the mount.                  *)
(***************************************************************************)
HomeNext ==
  \/ Mount
     /\ UNCHANGED <<remoteFavs, remoteHistory, remoteSeq, frFailed, origin,
                   destination, error, showFavorites, loading, navigated,
                   addCalls, rmCalls, removed, gwCalls, polyVars, alertVars,
                   roadVars, indexVars>>
  \/ Focus
     /\ UNCHANGED <<remoteFavs, remoteHistory, remoteSeq, mounted, frCalls,
                   frFailed, ffCalls, origin, destination, error,
                   showFavorites, loading, navigated, addCalls, rmCalls,
                   removed, gwCalls, polyVars, alertVars, roadVars, indexVars>>
  \/ RefreshComplete
     /\ UNCHANGED <<remoteFavs, remoteHistory, remoteSeq, mounted, frCalls,
                   frFailed, ffCalls, origin, destination, error,
                   showFavorites, loading, navigated, addCalls, rmCalls,
                   removed, gwCalls, polyVars, alertVars, roadVars, indexVars>>
  \/ FavoritesTabPress
     /\ UNCHANGED <<remoteFavs, remoteHistory, remoteSeq, mounted, frCalls,
                   frFailed, origin, destination, error, loading, navigated,
                   addCalls, rmCalls, removed, gwCalls, polyVars, alertVars,
                   roadVars, indexVars>>
  \/ RecentTabPress
     /\ UNCHANGED <<remoteFavs, remoteHistory, remoteSeq, mounted, frFailed,
                   ffCalls, origin, destination, error, loading, navigated,
                   addCalls, rmCalls, removed, gwCalls, polyVars, alertVars,
                   roadVars, indexVars>>
  \/ \E c \in BagToSet(frCalls) : FetchRecentsFail(c)
     /\ UNCHANGED <<remoteFavs, remoteHistory, remoteSeq, mounted, rfCalls,
                   ffCalls, origin, destination, error, showFavorites,
                   loading, navigated, addCalls, rmCalls, removed, gwCalls,
                   polyVars, alertVars, roadVars, indexVars>>
  \/ \E c \in BagToSet(frCalls) : FetchRecentsResponse(c)
     /\ UNCHANGED <<remoteFavs, remoteHistory, remoteSeq, mounted, rfCalls,
                   frFailed, ffCalls, origin, destination, error,
                   showFavorites, loading, navigated, addCalls, rmCalls,
                   removed, gwCalls, polyVars, alertVars, roadVars, indexVars>>
  \/ \E c \in BagToSet(frCalls) : FetchRecentsRead(c)
     /\ UNCHANGED <<remoteFavs, remoteHistory, remoteSeq, mounted, rfCalls,
                   frFailed, ffCalls, origin, destination, error,
                   showFavorites, loading, navigated, addCalls, rmCalls,
                   removed, gwCalls, polyVars, alertVars, roadVars, indexVars>>
  \/ \E c \in BagToSet(frCalls) : FetchRecentsWrite(c)
     /\ UNCHANGED <<remoteFavs, remoteHistory, remoteSeq, mounted, rfCalls,
                   frFailed, ffCalls, origin, destination, error,
                   showFavorites, loading, navigated, addCalls, rmCalls,
                   removed, gwCalls, polyVars, alertVars, roadVars, indexVars>>
  \/ \E c \in BagToSet(ffCalls) : FetchFavoritesFail(c)
     /\ UNCHANGED <<remoteFavs, remoteHistory, remoteSeq, mounted, rfCalls,
                   frCalls, frFailed, origin, destination, error,
                   showFavorites, loading, navigated, addCalls, rmCalls,
                   removed, gwCalls, polyVars, alertVars, roadVars, indexVars>>
  \/ \E c \in BagToSet(ffCalls) : FetchFavoritesResponse(c)
     /\ UNCHANGED <<remoteFavs, remoteHistory, remoteSeq, mounted, rfCalls,
                   frCalls, frFailed, origin, destination, error,
                   showFavorites, loading, navigated, addCalls, rmCalls,
                   removed, gwCalls, polyVars, alertVars, roadVars, indexVars>>
  \/ \E c \in BagToSet(ffCalls) : FetchFavoritesRead(c)
     /\ UNCHANGED <<remoteFavs, remoteHistory, remoteSeq, mounted, rfCalls,
                   frCalls, frFailed, origin, destination, error,
                   showFavorites, loading, navigated, addCalls, rmCalls,
                   removed, gwCalls, polyVars, alertVars, roadVars, indexVars>>
  \/ \E c \in BagToSet(ffCalls) : FetchFavoritesWrite(c)
     /\ UNCHANGED <<remoteFavs, remoteHistory, remoteSeq, mounted, rfCalls,
                   frCalls, frFailed, origin, destination, error,
                   showFavorites, loading, navigated, addCalls, rmCalls,
                   removed, gwCalls, polyVars, alertVars, roadVars, indexVars>>
  \/ TypeOrigin
     /\ UNCHANGED <<store, recentRoutes, favoriteRoutes, listLoading,
                   remoteFavs, remoteHistory, remoteSeq, mounted, rfCalls,
                   frCalls, frFailed, ffCalls, destination, error,
                   showFavorites, loading, navigated, addCalls, rmCalls,
                   removed, gwCalls, polyVars, alertVars, roadVars, indexVars>>
  \/ TypeDestination
     /\ UNCHANGED <<store, recentRoutes, favoriteRoutes, listLoading,
                   remoteFavs, remoteHistory, remoteSeq, mounted, rfCalls,
                   frCalls, frFailed, ffCalls, origin, error, showFavorites,
                   loading, navigated, addCalls, rmCalls, removed, gwCalls,
                   polyVars, alertVars, roadVars, indexVars>>
  \/ swapLocations
     /\ UNCHANGED <<store, recentRoutes, favoriteRoutes, listLoading,
                   remoteFavs, remoteHistory, remoteSeq, mounted, rfCalls,
                   frCalls, frFailed, ffCalls, error, showFavorites, loading,
                   navigated, addCalls, rmCalls, removed, gwCalls, polyVars,
                   alertVars, roadVars, indexVars>>
  \/ handleSelectRoute
     /\ UNCHANGED <<store, recentRoutes, favoriteRoutes, listLoading,
                   remoteFavs, remoteHistory, remoteSeq, mounted, rfCalls,
                   frCalls, frFailed, ffCalls, showFavorites, loading,
                   navigated, addCalls, rmCalls, removed, gwCalls, polyVars,
                   alertVars, roadVars, indexVars>>
  \/ AddToFavoritesCall
     /\ UNCHANGED <<store, recentRoutes, favoriteRoutes, listLoading,
                   remoteFavs, remoteHistory, remoteSeq, mounted, rfCalls,
                   frCalls, frFailed, ffCalls, origin, destination,
                   showFavorites, loading, navigated, rmCalls, removed,
                   gwCalls, polyVars, alertVars, roadVars, indexVars>>
  \/ \E c \in BagToSet(addCalls) : AddFavoriteRead(c)
     /\ UNCHANGED <<recentRoutes, listLoading, remoteFavs, remoteHistory,
                   remoteSeq, mounted, rfCalls, frCalls, frFailed, ffCalls,
                   origin, destination, error, loading, navigated, rmCalls,
                   gwCalls, polyVars, alertVars, roadVars, indexVars>>
  \/ \E c \in BagToSet(addCalls) : AddFavoriteWrite(c)
     /\ UNCHANGED <<recentRoutes, listLoading, remoteFavs, remoteHistory,
                   remoteSeq, mounted, rfCalls, frCalls, frFailed, ffCalls,
                   origin, destination, error, loading, navigated, rmCalls,
                   gwCalls, polyVars, alertVars, roadVars, indexVars>>
  \/ \E c \in BagToSet(addCalls) : AddFavoritePostOk(c)
     /\ UNCHANGED <<recentRoutes, remoteHistory, mounted, rfCalls, frCalls,
                   frFailed, origin, destination, error, loading, navigated,
                   rmCalls, gwCalls, polyVars, alertVars, roadVars, indexVars>>
  \/ \E c \in BagToSet(addCalls) : AddFavoritePostFail(c)
     /\ UNCHANGED <<recentRoutes, listLoading, remoteFavs, remoteHistory,
                   remoteSeq, mounted, rfCalls, frCalls, frFailed, ffCalls,
                   origin, destination, error, loading, navigated, rmCalls,
                   gwCalls, polyVars, alertVars, roadVars, indexVars>>
  \/ RemoveFavoriteCall
     /\ UNCHANGED <<store, recentRoutes, favoriteRoutes, listLoading,
                   remoteFavs, remoteHistory, remoteSeq, mounted, rfCalls,
                   frCalls, frFailed, ffCalls, origin, destination,
                   showFavorites, loading, navigated, addCalls, removed,
                   gwCalls, polyVars, alertVars, roadVars, indexVars>>
  \/ \E c \in BagToSet(rmCalls) : RemoveFavoriteRead(c)
     /\ UNCHANGED <<recentRoutes, listLoading, remoteFavs, remoteHistory,
                   remoteSeq, mounted, rfCalls, frCalls, frFailed, ffCalls,
                   origin, destination, error, showFavorites, loading,
                   navigated, addCalls, gwCalls, polyVars, alertVars,
                   roadVars, indexVars>>
  \/ \E c \in BagToSet(rmCalls) : RemoveFavoriteWrite(c)
     /\ UNCHANGED <<recentRoutes, listLoading, remoteFavs, remoteHistory,
                   remoteSeq, mounted, rfCalls, frCalls, frFailed, ffCalls,
                   origin, destination, error, showFavorites, loading,
                   navigated, addCalls, gwCalls, polyVars, alertVars,
                   roadVars, indexVars>>
  \/ \E c \in BagToSet(rmCalls) : RemoveFavoriteDeleteOk(c)
     /\ UNCHANGED <<recentRoutes, remoteHistory, remoteSeq, mounted, rfCalls,
                   frCalls, frFailed, origin, destination, error,
                   showFavorites, loading, navigated, addCalls, gwCalls,
                   polyVars, alertVars, roadVars, indexVars>>
  \/ \E c \in BagToSet(rmCalls) : RemoveFavoriteDeleteFail(c)
     /\ UNCHANGED <<recentRoutes, listLoading, remoteFavs, remoteHistory,
                   remoteSeq, mounted, rfCalls, frCalls, frFailed, ffCalls,
                   origin, destination, error, showFavorites, loading,
                   navigated, addCalls, gwCalls, polyVars, alertVars,
                   roadVars, indexVars>>
  \/ GetWeatherCall
     /\ UNCHANGED <<store, recentRoutes, favoriteRoutes, listLoading,
                   remoteFavs, remoteHistory, remoteSeq, mounted, rfCalls,
                   frCalls, frFailed, ffCalls, origin, destination,
                   showFavorites, addCalls, rmCalls, removed, polyVars,
                   alertVars, roadVars, indexVars>>
  \/ \E c \in BagToSet(gwCalls) : GetWeatherPostFail(c)
     /\ UNCHANGED <<favoriteRoutes, listLoading, remoteFavs, remoteHistory,
                   remoteSeq, mounted, rfCalls, frCalls, frFailed, ffCalls,
                   origin, destination, showFavorites, addCalls, rmCalls,
                   removed, polyVars, alertVars, roadVars, indexVars>>
  \/ \E c \in BagToSet(gwCalls) : GetWeatherPostOk(c)
     /\ UNCHANGED <<favoriteRoutes, listLoading, remoteFavs, remoteHistory,
                   remoteSeq, mounted, rfCalls, frCalls, frFailed, ffCalls,
                   origin, destination, showFavorites, addCalls, rmCalls,
                   removed, polyVars, alertVars, roadVars, indexVars>>
  \/ \E c \in BagToSet(gwCalls) : GetWeatherCacheFail(c)
     /\ UNCHANGED <<favoriteRoutes, listLoading, remoteFavs, remoteHistory,
                   remoteSeq, mounted, rfCalls, frCalls, frFailed, ffCalls,
                   origin, destination, showFavorites, addCalls, rmCalls,
                   removed, polyVars, alertVars, roadVars, indexVars>>
  \/ \E c \in BagToSet(gwCalls) : GetWeatherCached(c)
     /\ UNCHANGED <<favoriteRoutes, listLoading, remoteFavs, remoteHistory,
                   remoteSeq, mounted, rfCalls, frCalls, frFailed, ffCalls,
                   origin, destination, showFavorites, addCalls, rmCalls,
                   removed, polyVars, alertVars, roadVars, indexVars>>
  \/ \E c \in BagToSet(gwCalls) : GetWeatherRead(c)
     /\ UNCHANGED <<favoriteRoutes, listLoading, remoteFavs, remoteHistory,
                   remoteSeq, mounted, rfCalls, frCalls, frFailed, ffCalls,
                   origin, destination, showFavorites, addCalls, rmCalls,
                   removed, polyVars, alertVars, roadVars, indexVars>>
  \/ \E c \in BagToSet(gwCalls) : GetWeatherWrite(c)
     /\ UNCHANGED <<favoriteRoutes, listLoading, remoteFavs, remoteHistory,
                   remoteSeq, mounted, rfCalls, frCalls, frFailed, ffCalls,
                   origin, destination, showFavorites, addCalls, rmCalls,
                   removed, polyVars, alertVars, roadVars, indexVars>>


\* The screen before it mounts: the store of an earlier session, the
\* backend lists as they are (the history longer than the limit).
InitSync ==
  /\ PolyIdle /\ AlertIdle /\ RoadIdle /\ IndexIdle
  /\ HomeAtRest
  /\ mounted = FALSE
  /\ recentRoutes = <<>> /\ favoriteRoutes = <<>>
  /\ store \in {EmptyStore,
                [favorites |-> <<LocalRoute(<<"A">>, <<"Z">>)>>,
                 recents   |-> <<LocalRoute(<<"B">>, <<"Z">>)>>]}
  /\ remoteHistory \in
       {<<>>,
        [i \in 1..(RecentsLimit + 1) |->
           ServerRoute(ToString(i), <<LowerChars[i]>>, <<"Z">>)]}
  /\ remoteFavs \in {<<>>, <<ServerRoute("f1", <<"A">>, <<"Z">>)>>}
  /\ remoteSeq = 0

SpecHome == InitSync /\ [][HomeNext]_vars

(***************************************************************************)
(* The mount effect, the focus effect and the tabs with the two fetches.   *)
(***************************************************************************)
SyncNext ==
  \/ Mount
     /\ UNCHANGED <<remoteFavs, remoteHistory, remoteSeq, frFailed, origin,
                   destination, error, showFavorites, loading, navigated,
                   addCalls, rmCalls, removed, gwCalls, polyVars, alertVars,
                   roadVars, indexVars>>
  \/ Focus
     /\ UNCHANGED <<remoteFavs, remoteHistory, remoteSeq, mounted, frCalls,
                   frFailed, ffCalls, origin, destination, error,
                   showFavorites, loading, navigated, addCalls, rmCalls,
                   removed, gwCalls, polyVars, alertVars, roadVars, indexVars>>
  \/ RefreshComplete
     /\ UNCHANGED <<remoteFavs, remoteHistory, remoteSeq, mounted, frCalls,
                   frFailed, ffCalls, origin, destination, error,
                   showFavorites, loading, navigated, addCalls, rmCalls,
                   removed, gwCalls, polyVars, alertVars, roadVars, indexVars>>
  \/ FavoritesTabPress
     /\ UNCHANGED <<remoteFavs, remoteHistory, remoteSeq, mounted, frCalls,
                   frFailed, origin, destination, error, loading, navigated,
                   addCalls, rmCalls, removed, gwCalls, polyVars, alertVars,
                   roadVars, indexVars>>
  \/ RecentTabPress
     /\ UNCHANGED <<remoteFavs, remoteHistory, remoteSeq, mounted, frFailed,
                   ffCalls, origin, destination, error, loading, navigated,
                   addCalls, rmCalls, removed, gwCalls, polyVars, alertVars,
                   roadVars, indexVars>>
  \/ \E c \in BagToSet(frCalls) : FetchRecentsFail(c)
     /\ UNCHANGED <<remoteFavs, remoteHistory, remoteSeq, mounted, rfCalls,
                   ffCalls, origin, destination, error, showFavorites,
                   loading, navigated, addCalls, rmCalls, removed, gwCalls,
                   polyVars, alertVars, roadVars, indexVars>>
  \/ \E c \in BagToSet(frCalls) : FetchRecentsResponse(c)
     /\ UNCHANGED <<remoteFavs, remoteHistory, remoteSeq, mounted, rfCalls,
                   frFailed, ffCalls, origin, destination, error,
                   showFavorites, loading, navigated, addCalls, rmCalls,
                   removed, gwCalls, polyVars, alertVars, roadVars, indexVars>>
  \/ \E c \in BagToSet(frCalls) : FetchRecentsRead(c)
     /\ UNCHANGED <<remoteFavs, remoteHistory, remoteSeq, mounted, rfCalls,
                   frFailed, ffCalls, origin, destination, error,
                   showFavorites, loading, navigated, addCalls, rmCalls,
                   removed, gwCalls, polyVars, alertVars, roadVars, indexVars>>
  \/ \E c \in BagToSet(frCalls) : FetchRecentsWrite(c)
     /\ UNCHANGED <<remoteFavs, remoteHistory, remoteSeq, mounted, rfCalls,
                   frFailed, ffCalls, origin, destination, error,
                   showFavorites, loading, navigated, addCalls, rmCalls,
                   removed, gwCalls, polyVars, alertVars, roadVars, indexVars>>
  \/ \E c \in BagToSet(ffCalls) : FetchFavoritesFail(c)
     /\ UNCHANGED <<remoteFavs, remoteHistory, remoteSeq, mounted, rfCalls,
                   frCalls, frFailed, origin, destination, error,
                   showFavorites, loading, navigated, addCalls, rmCalls,
                   removed, gwCalls, polyVars, alertVars, roadVars, indexVars>>
  \/ \E c \in BagToSet(ffCalls) : FetchFavoritesResponse(c)
     /\ UNCHANGED <<remoteFavs, remoteHistory, remoteSeq, mounted, rfCalls,
                   frCalls, frFailed, origin, destination, error,
                   showFavorites, loading, navigated, addCalls, rmCalls,
                   removed, gwCalls, polyVars, alertVars, roadVars, indexVars>>
  \/ \E c \in BagToSet(ffCalls) : FetchFavoritesRead(c)
     /\ UNCHANGED <<remoteFavs, remoteHistory, remoteSeq, mounted, rfCalls,
                   frCalls, frFailed, origin, destination, error,
                   showFavorites, loading, navigated, addCalls, rmCalls,
                   removed, gwCalls, polyVars, alertVars, roadVars, indexVars>>
  \/ \E c \in BagToSet(ffCalls) : FetchFavoritesWrite(c)
     /\ UNCHANGED <<remoteFavs, remoteHistory, remoteSeq, mounted, rfCalls,
                   frCalls, frFailed, origin, destination, error,
                   showFavorites, loading, navigated, addCalls, rmCalls,
                   removed, gwCalls, polyVars, alertVars, roadVars, indexVars>>


SpecSync == InitSync /\ [][SyncNext]_vars

(***************************************************************************)
(* Saving favourites.                                                      *)
(***************************************************************************)
FavNext ==
  \/ TypeOrigin
     /\ UNCHANGED <<store, recentRoutes, favoriteRoutes, listLoading,
                   remoteFavs, remoteHistory, remoteSeq, mounted, rfCalls,
                   frCalls, frFailed, ffCalls, destination, error,
                   showFavorites, loading, navigated, addCalls, rmCalls,
                   removed, gwCalls, polyVars, alertVars, roadVars, indexVars>>
  \/ TypeDestination
     /\ UNCHANGED <<store, recentRoutes, favoriteRoutes, listLoading,
                   remoteFavs, remoteHistory, remoteSeq, mounted, rfCalls,
                   frCalls, frFailed, ffCalls, origin, error, showFavorites,
                   loading, navigated, addCalls, rmCalls, removed, gwCalls,
                   polyVars, alertVars, roadVars, indexVars>>
  \/ AddToFavoritesCall
     /\ UNCHANGED <<store, recentRoutes, favoriteRoutes, listLoading,
                   remoteFavs, remoteHistory, remoteSeq, mounted, rfCalls,
                   frCalls, frFailed, ffCalls, origin, destination,
                   showFavorites, loading, navigated, rmCalls, removed,
                   gwCalls, polyVars, alertVars, roadVars, indexVars>>
  \/ \E c \in BagToSet(addCalls) : AddFavoriteRead(c)
     /\ UNCHANGED <<recentRoutes, listLoading, remoteFavs, remoteHistory,
                   remoteSeq, mounted, rfCalls, frCalls, frFailed, ffCalls,
                   origin, destination, error, loading, navigated, rmCalls,
                   gwCalls, polyVars, alertVars, roadVars, indexVars>>
  \/ \E c \in BagToSet(addCalls) : AddFavoriteWrite(c)
     /\ UNCHANGED <<recentRoutes, listLoading, remoteFavs, remoteHistory,
                   remoteSeq, mounted, rfCalls, frCalls, frFailed, ffCalls,
                   origin, destination, error, loading, navigated, rmCalls,
                   gwCalls, polyVars, alertVars, roadVars, indexVars>>
  \/ \E c \in BagToSet(addCalls) : AddFavoritePostOk(c)
     /\ UNCHANGED <<recentRoutes, remoteHistory, mounted, rfCalls, frCalls,
                   frFailed, origin, destination, error, loading, navigated,
                   rmCalls, gwCalls, polyVars, alertVars, roadVars, indexVars>>
  \/ \E c \in BagToSet(addCalls) : AddFavoritePostFail(c)
     /\ UNCHANGED <<recentRoutes, listLoading, remoteFavs, remoteHistory,
                   remoteSeq, mounted, rfCalls, frCalls, frFailed, ffCalls,
                   origin, destination, error, loading, navigated, rmCalls,
                   gwCalls, polyVars, alertVars, roadVars, indexVars>>
  \/ \E c \in BagToSet(ffCalls) : FetchFavoritesFail(c)
     /\ UNCHANGED <<remoteFavs, remoteHistory, remoteSeq, mounted, rfCalls,
                   frCalls, frFailed, origin, destination, error,
                   showFavorites, loading, navigated, addCalls, rmCalls,
                   removed, gwCalls, polyVars, alertVars, roadVars, indexVars>>
  \/ \E c \in BagToSet(ffCalls) : FetchFavoritesResponse(c)
     /\ UNCHANGED <<remoteFavs, remoteHistory, remoteSeq, mounted, rfCalls,
                   frCalls, frFailed, origin, destination, error,
                   showFavorites, loading, navigated, addCalls, rmCalls,
                   removed, gwCalls, polyVars, alertVars, roadVars, indexVars>>
  \/ \E c \in BagToSet(ffCalls) : FetchFavoritesRead(c)
     /\ UNCHANGED <<remoteFavs, remoteHistory, remoteSeq, mounted, rfCalls,
                   frCalls, frFailed, origin, destination, error,
                   showFavorites, loading, navigated, addCalls, rmCalls,
                   removed, gwCalls, polyVars, alertVars, roadVars, indexVars>>
  \/ \E c \in BagToSet(ffCalls) : FetchFavoritesWrite(c)
     /\ UNCHANGED <<remoteFavs, remoteHistory, remoteSeq, mounted, rfCalls,
                   frCalls, frFailed, origin, destination, error,
                   showFavorites, loading, navigated, addCalls, rmCalls,
                   removed, gwCalls, polyVars, alertVars, roadVars, indexVars>>


\* The mounted screen of a fresh installation, its mount effect finished.
InitFav ==
  /\ PolyIdle /\ AlertIdle /\ RoadIdle /\ IndexIdle
  /\ HomeAtRest
  /\ mounted = TRUE
  /\ recentRoutes = <<>> /\ favoriteRoutes = <<>>
  /\ store = EmptyStore
  /\ remoteFavs = <<>> /\ remoteSeq = 0
  /\ remoteHistory = <<>>

SpecFav == InitFav /\ [][FavNext]_vars

(***************************************************************************)
(* Removing favourites.                                                    *)
(***************************************************************************)
RemoveNext ==
  \/ FavoritesTabPress
     /\ UNCHANGED <<remoteFavs, remoteHistory, remoteSeq, mounted, frCalls,
                   frFailed, origin, destination, error, loading, navigated,
                   addCalls, rmCalls, removed, gwCalls, polyVars, alertVars,
                   roadVars, indexVars>>
  \/ RefreshComplete
     /\ UNCHANGED <<remoteFavs, remoteHistory, remoteSeq, mounted, frCalls,
                   frFailed, ffCalls, origin, destination, error,
                   showFavorites, loading, navigated, addCalls, rmCalls,
                   removed, gwCalls, polyVars, alertVars, roadVars, indexVars>>
  \/ handleSelectRoute
     /\ UNCHANGED <<store, recentRoutes, favoriteRoutes, listLoading,
                   remoteFavs, remoteHistory, remoteSeq, mounted, rfCalls,
                   frCalls, frFailed, ffCalls, showFavorites, loading,
                   navigated, addCalls, rmCalls, removed, gwCalls, polyVars,
                   alertVars, roadVars, indexVars>>
  \/ swapLocations
     /\ UNCHANGED <<store, recentRoutes, favoriteRoutes, listLoading,
                   remoteFavs, remoteHistory, remoteSeq, mounted, rfCalls,
                   frCalls, frFailed, ffCalls, error, showFavorites, loading,
                   navigated, addCalls, rmCalls, removed, gwCalls, polyVars,
                   alertVars, roadVars, indexVars>>
  \/ RemoveFavoriteCall
     /\ UNCHANGED <<store, recentRoutes, favoriteRoutes, listLoading,
                   remoteFavs, remoteHistory, remoteSeq, mounted, rfCalls,
                   frCalls, frFailed, ffCalls, origin, destination,
                   showFavorites, loading, navigated, addCalls, removed,
                   gwCalls, polyVars, alertVars, roadVars, indexVars>>
  \/ \E c \in BagToSet(rmCalls) : RemoveFavoriteRead(c)
     /\ UNCHANGED <<recentRoutes, listLoading, remoteFavs, remoteHistory,
                   remoteSeq, mounted, rfCalls, frCalls, frFailed, ffCalls,
                   origin, destination, error, showFavorites, loading,
                   navigated, addCalls, gwCalls, polyVars, alertVars,
                   roadVars, indexVars>>
  \/ \E c \in BagToSet(rmCalls) : RemoveFavoriteWrite(c)
     /\ UNCHANGED <<recentRoutes, listLoading, remoteFavs, remoteHistory,
                   remoteSeq, mounted, rfCalls, frCalls, frFailed, ffCalls,
                   origin, destination, error, showFavorites, loading,
                   navigated, addCalls, gwCalls, polyVars, alertVars,
                   roadVars, indexVars>>
  \/ \E c \in BagToSet(rmCalls) : RemoveFavoriteDeleteOk(c)
     /\ UNCHANGED <<recentRoutes, remoteHistory, remoteSeq, mounted, rfCalls,
                   frCalls, frFailed, origin, destination, error,
                   showFavorites, loading, navigated, addCalls, gwCalls,
                   polyVars, alertVars, roadVars, indexVars>>
  \/ \E c \in BagToSet(rmCalls) : RemoveFavoriteDeleteFail(c)
     /\ UNCHANGED <<recentRoutes, listLoading, remoteFavs, remoteHistory,
                   remoteSeq, mounted, rfCalls, frCalls, frFailed, ffCalls,
                   origin, destination, error, showFavorites, loading,
                   navigated, addCalls, gwCalls, polyVars, alertVars,
                   roadVars, indexVars>>
  \/ \E c \in BagToSet(ffCalls) : FetchFavoritesFail(c)
     /\ UNCHANGED <<remoteFavs, remoteHistory, remoteSeq, mounted, rfCalls,
                   frCalls, frFailed, origin, destination, error,
                   showFavorites, loading, navigated, addCalls, rmCalls,
                   removed, gwCalls, polyVars, alertVars, roadVars, indexVars>>
  \/ \E c \in BagToSet(ffCalls) : FetchFavoritesResponse(c)
     /\ UNCHANGED <<remoteFavs, remoteHistory, remoteSeq, mounted, rfCalls,
                   frCalls, frFailed, origin, destination, error,
                   showFavorites, loading, navigated, addCalls, rmCalls,
                   removed, gwCalls, polyVars, alertVars, roadVars, indexVars>>
  \/ \E c \in BagToSet(ffCalls) : FetchFavoritesRead(c)
     /\ UNCHANGED <<remoteFavs, remoteHistory, remoteSeq, mounted, rfCalls,
                   frCalls, frFailed, origin, destination, error,
                   showFavorites, loading, navigated, addCalls, rmCalls,
                   removed, gwCalls, polyVars, alertVars, roadVars, indexVars>>
  \/ \E c \in BagToSet(ffCalls) : FetchFavoritesWrite(c)
     /\ UNCHANGED <<remoteFavs, remoteHistory, remoteSeq, mounted, rfCalls,
                   frCalls, frFailed, origin, destination, error,
                   showFavorites, loading, navigated, addCalls, rmCalls,
                   removed, gwCalls, polyVars, alertVars, roadVars, indexVars>>


\* The mounted screen of a session after a favourite has been saved and
\* posted: the backend holds it under an id, the store holds the copy of
\* addFavoriteLocal or, after a fetch, the backend's.
InitRemove ==
  /\ PolyIdle /\ AlertIdle /\ RoadIdle /\ IndexIdle
  /\ HomeAtRest
  /\ mounted = TRUE
  /\ \E fav \in {LocalRoute(<<"A">>, <<"Z">>), ServerRoute("1", <<"A">>, <<"Z">>)} :
       store = [favorites |-> <<fav>>, recents |-> <<>>]
  /\ recentRoutes = store.recents /\ favoriteRoutes = store.favorites
  /\ remoteFavs = <<ServerRoute("1", <<"A">>, <<"Z">>)>> /\ remoteSeq = 1
  /\ remoteHistory = <<>>

SpecRemove == InitRemove /\ [][RemoveNext]_vars

(***************************************************************************)
(* The weather request while the history endpoint is failing.              *)
(***************************************************************************)
WeatherNext ==
  \/ TypeOrigin
     /\ UNCHANGED <<store, recentRoutes, favoriteRoutes, listLoading,
                   remoteFavs, remoteHistory, remoteSeq, mounted, rfCalls,
                   frCalls, frFailed, ffCalls, destination, error,
                   showFavorites, loading, navigated, addCalls, rmCalls,
                   removed, gwCalls, polyVars, alertVars, roadVars, indexVars>>
  \/ TypeDestination
     /\ UNCHANGED <<store, recentRoutes, favoriteRoutes, listLoading,
                   remoteFavs, remoteHistory, remoteSeq, mounted, rfCalls,
                   frCalls, frFailed, ffCalls, origin, error, showFavorites,
                   loading, navigated, addCalls, rmCalls, removed, gwCalls,
                   polyVars, alertVars, roadVars, indexVars>>
  \/ GetWeatherCall
     /\ UNCHANGED <<store, recentRoutes, favoriteRoutes, listLoading,
                   remoteFavs, remoteHistory, remoteSeq, mounted, rfCalls,
                   frCalls, frFailed, ffCalls, origin, destination,
                   showFavorites, addCalls, rmCalls, removed, polyVars,
                   alertVars, roadVars, indexVars>>
  \/ \E c \in BagToSet(gwCalls) : GetWeatherPostFail(c)
     /\ UNCHANGED <<favoriteRoutes, listLoading, remoteFavs, remoteHistory,
                   remoteSeq, mounted, rfCalls, frCalls, frFailed, ffCalls,
                   origin, destination, showFavorites, addCalls, rmCalls,
                   removed, polyVars, alertVars, roadVars, indexVars>>
  \/ \E c \in BagToSet(gwCalls) : GetWeatherPostOk(c)
     /\ UNCHANGED <<favoriteRoutes, listLoading, remoteFavs, remoteHistory,
                   remoteSeq, mounted, rfCalls, frCalls, frFailed, ffCalls,
                   origin, destination, showFavorites, addCalls, rmCalls,
                   removed, polyVars, alertVars, roadVars, indexVars>>
  \/ \E c \in BagToSet(gwCalls) : GetWeatherCacheFail(c)
     /\ UNCHANGED <<favoriteRoutes, listLoading, remoteFavs, remoteHistory,
                   remoteSeq, mounted, rfCalls, frCalls, frFailed, ffCalls,
                   origin, destination, showFavorites, addCalls, rmCalls,
                   removed, polyVars, alertVars, roadVars, indexVars>>
  \/ \E c \in BagToSet(gwCalls) : GetWeatherCached(c)
     /\ UNCHANGED <<favoriteRoutes, listLoading, remoteFavs, remoteHistory,
                   remoteSeq, mounted, rfCalls, frCalls, frFailed, ffCalls,
                   origin, destination, showFavorites, addCalls, rmCalls,
                   removed, polyVars, alertVars, roadVars, indexVars>>
  \/ \E c \in BagToSet(gwCalls) : GetWeatherRead(c)
     /\ UNCHANGED <<favoriteRoutes, listLoading, remoteFavs, remoteHistory,
                   remoteSeq, mounted, rfCalls, frCalls, frFailed, ffCalls,
                   origin, destination, showFavorites, addCalls, rmCalls,
                   removed, polyVars, alertVars, roadVars, indexVars>>
  \/ \E c \in BagToSet(gwCalls) : GetWeatherWrite(c)
     /\ UNCHANGED <<favoriteRoutes, listLoading, remoteFavs, remoteHistory,
                   remoteSeq, mounted, rfCalls, frCalls, frFailed, ffCalls,
                   origin, destination, showFavorites, addCalls, rmCalls,
                   removed, polyVars, alertVars, roadVars, indexVars>>
  \/ RecentTabPress
     /\ UNCHANGED <<remoteFavs, remoteHistory, remoteSeq, mounted, frFailed,
                   ffCalls, origin, destination, error, loading, navigated,
                   addCalls, rmCalls, removed, gwCalls, polyVars, alertVars,
                   roadVars, indexVars>>
  \/ RefreshComplete
     /\ UNCHANGED <<remoteFavs, remoteHistory, remoteSeq, mounted, frCalls,
                   frFailed, ffCalls, origin, destination, error,
                   showFavorites, loading, navigated, addCalls, rmCalls,
                   removed, gwCalls, polyVars, alertVars, roadVars, indexVars>>
  \/ \E c \in BagToSet(frCalls) : FetchRecentsFail(c)
     /\ UNCHANGED <<remoteFavs, remoteHistory, remoteSeq, mounted, rfCalls,
                   ffCalls, origin, destination, error, showFavorites,
                   loading, navigated, addCalls, rmCalls, removed, gwCalls,
                   polyVars, alertVars, roadVars, indexVars>>


\* The mounted screen with the recents of earlier sessions.
InitWeather ==
  /\ PolyIdle /\ AlertIdle /\ RoadIdle /\ IndexIdle
  /\ HomeAtRest
  /\ mounted = TRUE
  /\ store \in {EmptyStore,
                [favorites |-> <<>>, recents |-> <<LocalRoute(<<"a">>, <<"Z">>)>>],
                [favorites |-> <<>>,
                 recents   |-> [i \in 1..RecentsLimit |->
                                 LocalRoute(<<LowerChars[i]>>, <<"Y">>)]]}
  /\ recentRoutes = store.recents /\ favoriteRoutes = store.favorites
  /\ remoteFavs = <<>> /\ remoteSeq = 0
  /\ remoteHistory = <<>>

SpecWeather == InitWeather /\ [][WeatherNext]_vars

(***************************************************************************)
(* loadAll with routes checked while it runs.                              *)
(***************************************************************************)
IndexLoadNext ==
  \/ LoadAllCall
     /\ UNCHANGED <<storedRecents, storedFavorites, recents, favorites,
                   originText, destinationText, stops, activeTab, crCalls,
                   crDraft, crInLoad, pushed, alertShown, tgCalls, clCalls,
                   polyVars, alertVars, roadVars, homeVars>>
  \/ \E key \in {"recents", "favorites"} : LoadAllGetItem(key)
     /\ UNCHANGED <<originText, destinationText, stops, activeTab, crCalls,
                   crDraft, crInLoad, pushed, alertShown, tgCalls, clCalls,
                   polyVars, alertVars, roadVars, homeVars>>
  \/ LoadAllWriteRecents
     /\ UNCHANGED <<originText, destinationText, stops, activeTab, crCalls,
                   crDraft, crInLoad, pushed, alertShown, tgCalls, clCalls,
                   polyVars, alertVars, roadVars, homeVars>>
  \/ LoadAllWriteFavorites
     /\ UNCHANGED <<originText, destinationText, stops, activeTab, crCalls,
                   crDraft, crInLoad, pushed, alertShown, tgCalls, clCalls,
                   polyVars, alertVars, roadVars, homeVars>>
  \/ handleOriginChange
     /\ UNCHANGED <<storedRecents, storedFavorites, recents, favorites,
                   destinationText, stops, activeTab, loadPc, loadRaw, loadR,
                   loadF, crCalls, crDraft, crInLoad, pushed, alertShown,
                   tgCalls, clCalls, polyVars, alertVars, roadVars, homeVars>>
  \/ handleDestChange
     /\ UNCHANGED <<storedRecents, storedFavorites, recents, favorites,
                   originText, stops, activeTab, loadPc, loadRaw, loadR,
                   loadF, crCalls, crDraft, crInLoad, pushed, alertShown,
                   tgCalls, clCalls, polyVars, alertVars, roadVars, homeVars>>
  \/ CheckRouteCall
     /\ UNCHANGED <<storedFavorites, favorites, originText, destinationText,
                   stops, activeTab, loadPc, loadRaw, loadR, loadF, tgCalls,
                   clCalls, polyVars, alertVars, roadVars, homeVars>>
  \/ \E c \in BagToSet(crCalls) : CheckRouteSaved(c)
     /\ UNCHANGED <<storedFavorites, favorites, originText, destinationText,
                   stops, activeTab, loadPc, loadRaw, loadR, loadF, tgCalls,
                   clCalls, polyVars, alertVars, roadVars, homeVars>>


\* The screen before it mounts.  The stored recents may come from an older
\* version of the app (a missing id, an entry that is not an object, a
\* repeated id) or may not parse.
InitIndexLoad ==
  /\ PolyIdle /\ AlertIdle /\ RoadIdle /\ HomeIdle
  /\ IndexAtRest
  /\ loadPc = "idle"
  /\ storedRecents \in
       {Stored(<<>>),
        Stored(<<SavedRoute(<<>>, <<"A">>, <<"Z">>, <<>>, <<>>),
                 [SavedRoute(<<>>, <<>>, <<>>, <<>>, <<>>) EXCEPT !.isObject = FALSE]>>),
        Stored(<<SavedRoute(<<"o", "1">>, <<"B">>, <<"Z">>, <<>>, <<>>),
                 SavedRoute(<<"o", "1">>, <<"C">>, <<"Z">>, <<>>, <<>>)>>),
        [parses |-> FALSE, items |-> <<>>]}
  /\ storedFavorites \in {Stored(<<>>), Stored(<<Favorite(<<"A">>, <<"Z">>)>>)}
  /\ recents = <<>> /\ favorites = <<>>

SpecIndexLoad == InitIndexLoad /\ [][IndexLoadNext]_vars

(***************************************************************************)
(* The index screen: every handler, from before the mount.                 *)
(***************************************************************************)
IndexNext ==
  \/ LoadAllCall
     /\ UNCHANGED <<storedRecents, storedFavorites, recents, favorites,
                   originText, destinationText, stops, activeTab, crCalls,
                   crDraft, crInLoad, pushed, alertShown, tgCalls, clCalls,
                   polyVars, alertVars, roadVars, homeVars>>
  \/ \E key \in {"recents", "favorites"} : LoadAllGetItem(key)
     /\ UNCHANGED <<originText, destinationText, stops, activeTab, crCalls,
                   crDraft, crInLoad, pushed, alertShown, tgCalls, clCalls,
                   polyVars, alertVars, roadVars, homeVars>>
  \/ LoadAllWriteRecents
     /\ UNCHANGED <<originText, destinationText, stops, activeTab, crCalls,
                   crDraft, crInLoad, pushed, alertShown, tgCalls, clCalls,
                   polyVars, alertVars, roadVars, homeVars>>
  \/ LoadAllWriteFavorites
     /\ UNCHANGED <<originText, destinationText, stops, activeTab, crCalls,
                   crDraft, crInLoad, pushed, alertShown, tgCalls, clCalls,
                   polyVars, alertVars, roadVars, homeVars>>
  \/ handleOriginChange
     /\ UNCHANGED <<storedRecents, storedFavorites, recents, favorites,
                   destinationText, stops, activeTab, loadPc, loadRaw, loadR,
                   loadF, crCalls, crDraft, crInLoad, pushed, alertShown,
                   tgCalls, clCalls, polyVars, alertVars, roadVars, homeVars>>
  \/ handleDestChange
     /\ UNCHANGED <<storedRecents, storedFavorites, recents, favorites,
                   originText, stops, activeTab, loadPc, loadRaw, loadR,
                   loadF, crCalls, crDraft, crInLoad, pushed, alertShown,
                   tgCalls, clCalls, polyVars, alertVars, roadVars, homeVars>>
  \/ onAddStop
     /\ UNCHANGED <<storedRecents, storedFavorites, recents, favorites,
                   originText, destinationText, activeTab, loadPc, loadRaw,
                   loadR, loadF, crCalls, crDraft, crInLoad, pushed,
                   alertShown, tgCalls, clCalls, polyVars, alertVars,
                   roadVars, homeVars>>
  \/ handleStopChange
     /\ UNCHANGED <<storedRecents, storedFavorites, recents, favorites,
                   originText, destinationText, activeTab, loadPc, loadRaw,
                   loadR, loadF, crCalls, crDraft, crInLoad, pushed,
                   alertShown, tgCalls, clCalls, polyVars, alertVars,
                   roadVars, homeVars>>
  \/ removeStop
     /\ UNCHANGED <<storedRecents, storedFavorites, recents, favorites,
                   originText, destinationText, activeTab, loadPc, loadRaw,
                   loadR, loadF, crCalls, crDraft, crInLoad, pushed,
                   alertShown, tgCalls, clCalls, polyVars, alertVars,
                   roadVars, homeVars>>
  \/ selectOriginSuggestion
     /\ UNCHANGED <<storedRecents, storedFavorites, recents, favorites,
                   destinationText, stops, activeTab, loadPc, loadRaw, loadR,
                   loadF, crCalls, crDraft, crInLoad, pushed, alertShown,
                   tgCalls, clCalls, polyVars, alertVars, roadVars, homeVars>>
  \/ selectDestSuggestion
     /\ UNCHANGED <<storedRecents, storedFavorites, recents, favorites,
                   originText, stops, activeTab, loadPc, loadRaw, loadR,
                   loadF, crCalls, crDraft, crInLoad, pushed, alertShown,
                   tgCalls, clCalls, polyVars, alertVars, roadVars, homeVars>>
  \/ selectStopSuggestion
     /\ UNCHANGED <<storedRecents, storedFavorites, recents, favorites,
                   originText, destinationText, activeTab, loadPc, loadRaw,
                   loadR, loadF, crCalls, crDraft, crInLoad, pushed,
                   alertShown, tgCalls, clCalls, polyVars, alertVars,
                   roadVars, homeVars>>
  \/ onClearInputs
     /\ UNCHANGED <<storedRecents, storedFavorites, recents, favorites,
                   activeTab, loadPc, loadRaw, loadR, loadF, crCalls, crDraft,
                   crInLoad, pushed, alertShown, tgCalls, clCalls, polyVars,
                   alertVars, roadVars, homeVars>>
  \/ onLoadRouteIntoInputs
     /\ UNCHANGED <<storedRecents, storedFavorites, recents, favorites,
                   activeTab, loadPc, loadRaw, loadR, loadF, crCalls, crDraft,
                   crInLoad, pushed, alertShown, tgCalls, clCalls, polyVars,
                   alertVars, roadVars, homeVars>>
  \/ setActiveTab
     /\ UNCHANGED <<storedRecents, storedFavorites, recents, favorites,
                   originText, destinationText, stops, loadPc, loadRaw, loadR,
                   loadF, crCalls, crDraft, crInLoad, pushed, alertShown,
                   tgCalls, clCalls, polyVars, alertVars, roadVars, homeVars>>
  \/ CheckRouteCall
     /\ UNCHANGED <<storedFavorites, favorites, originText, destinationText,
                   stops, activeTab, loadPc, loadRaw, loadR, loadF, tgCalls,
                   clCalls, polyVars, alertVars, roadVars, homeVars>>
  \/ \E c \in BagToSet(crCalls) : CheckRouteSaved(c)
     /\ UNCHANGED <<storedFavorites, favorites, originText, destinationText,
                   stops, activeTab, loadPc, loadRaw, loadR, loadF, tgCalls,
                   clCalls, polyVars, alertVars, roadVars, homeVars>>
  \/ ToggleFavoriteCall
     /\ UNCHANGED <<storedRecents, recents, originText, destinationText, stops,
                   activeTab, loadPc, loadRaw, loadR, loadF, crCalls, crDraft,
                   crInLoad, pushed, clCalls, polyVars, alertVars, roadVars,
                   homeVars>>
  \/ \E c \in BagToSet(tgCalls) : ToggleFavoriteSaved(c)
     /\ UNCHANGED <<storedRecents, recents, originText, destinationText, stops,
                   activeTab, loadPc, loadRaw, loadR, loadF, crCalls, crDraft,
                   crInLoad, pushed, clCalls, polyVars, alertVars, roadVars,
                   homeVars>>
  \/ ClearListCall
     /\ UNCHANGED <<storedRecents, storedFavorites, recents, favorites,
                   originText, destinationText, stops, activeTab, loadPc,
                   loadRaw, loadR, loadF, crCalls, crDraft, crInLoad, pushed,
                   alertShown, tgCalls, polyVars, alertVars, roadVars,
                   homeVars>>
  \/ \E c \in BagToSet(clCalls) : ClearListRemoved(c)
     /\ UNCHANGED <<originText, destinationText, stops, activeTab, loadPc,
                   loadRaw, loadR, loadF, crCalls, crDraft, crInLoad, pushed,
                   alertShown, tgCalls, polyVars, alertVars, roadVars,
                   homeVars>>


SpecIndex == InitIndexLoad /\ [][IndexNext]_vars

(***************************************************************************)
(* Checking routes and clearing the lists.                                 *)
(***************************************************************************)
IndexCheckNext ==
  \/ handleOriginChange
     /\ UNCHANGED <<storedRecents, storedFavorites, recents, favorites,
                   destinationText, stops, activeTab, loadPc, loadRaw, loadR,
                   loadF, crCalls, crDraft, crInLoad, pushed, alertShown,
                   tgCalls, clCalls, polyVars, alertVars, roadVars, homeVars>>
  \/ handleDestChange
     /\ UNCHANGED <<storedRecents, storedFavorites, recents, favorites,
                   originText, stops, activeTab, loadPc, loadRaw, loadR,
                   loadF, crCalls, crDraft, crInLoad, pushed, alertShown,
                   tgCalls, clCalls, polyVars, alertVars, roadVars, homeVars>>
  \/ CheckRouteCall
     /\ UNCHANGED <<storedFavorites, favorites, originText, destinationText,
                   stops, activeTab, loadPc, loadRaw, loadR, loadF, tgCalls,
                   clCalls, polyVars, alertVars, roadVars, homeVars>>
  \/ \E c \in BagToSet(crCalls) : CheckRouteSaved(c)
     /\ UNCHANGED <<storedFavorites, favorites, originText, destinationText,
                   stops, activeTab, loadPc, loadRaw, loadR, loadF, tgCalls,
                   clCalls, polyVars, alertVars, roadVars, homeVars>>
  \/ setActiveTab
     /\ UNCHANGED <<storedRecents, storedFavorites, recents, favorites,
                   originText, destinationText, stops, loadPc, loadRaw, loadR,
                   loadF, crCalls, crDraft, crInLoad, pushed, alertShown,
                   tgCalls, clCalls, polyVars, alertVars, roadVars, homeVars>>
  \/ ClearListCall
     /\ UNCHANGED <<storedRecents, storedFavorites, recents, favorites,
                   originText, destinationText, stops, activeTab, loadPc,
                   loadRaw, loadR, loadF, crCalls, crDraft, crInLoad, pushed,
                   alertShown, tgCalls, polyVars, alertVars, roadVars,
                   homeVars>>
  \/ \E c \in BagToSet(clCalls) : ClearListRemoved(c)
     /\ UNCHANGED <<originText, destinationText, stops, activeTab, loadPc,
                   loadRaw, loadR, loadF, crCalls, crDraft, crInLoad, pushed,
                   alertShown, tgCalls, polyVars, alertVars, roadVars,
                   homeVars>>


\* The screen after loadAll has finished, with no recents or a full list.
InitIndexCheck ==
  /\ PolyIdle /\ AlertIdle /\ RoadIdle /\ HomeIdle
  /\ IndexAtRest
  /\ loadPc = "done"
  /\ recents \in
       {<<>>,
        [i \in 1..IndexRecentsLimit |->
           SavedRoute(<<"r", LowerChars[i]>>, <<LowerChars[i]>>, <<"Y">>,
                      <<>>, <<>>)]}
  /\ storedRecents = Stored(recents)
  /\ favorites = <<Favorite(<<"A">>, <<"Z">>)>>
  /\ storedFavorites = Stored(favorites)

SpecIndexCheck == InitIndexCheck /\ [][IndexCheckNext]_vars

(***************************************************************************)
(* The heart with inputs picked from the suggestions, and the stops.       *)
(***************************************************************************)
IndexToggleNext ==
  \/ onAddStop
     /\ UNCHANGED <<storedRecents, storedFavorites, recents, favorites,
                   originText, destinationText, activeTab, loadPc, loadRaw,
                   loadR, loadF, crCalls, crDraft, crInLoad, pushed,
                   alertShown, tgCalls, clCalls, polyVars, alertVars,
                   roadVars, homeVars>>
  \/ handleStopChange
     /\ UNCHANGED <<storedRecents, storedFavorites, recents, favorites,
                   originText, destinationText, activeTab, loadPc, loadRaw,
                   loadR, loadF, crCalls, crDraft, crInLoad, pushed,
                   alertShown, tgCalls, clCalls, polyVars, alertVars,
                   roadVars, homeVars>>
  \/ removeStop
     /\ UNCHANGED <<storedRecents, storedFavorites, recents, favorites,
                   originText, destinationText, activeTab, loadPc, loadRaw,
                   loadR, loadF, crCalls, crDraft, crInLoad, pushed,
                   alertShown, tgCalls, clCalls, polyVars, alertVars,
                   roadVars, homeVars>>
  \/ selectStopSuggestion
     /\ UNCHANGED <<storedRecents, storedFavorites, recents, favorites,
                   originText, destinationText, activeTab, loadPc, loadRaw,
                   loadR, loadF, crCalls, crDraft, crInLoad, pushed,
                   alertShown, tgCalls, clCalls, polyVars, alertVars,
                   roadVars, homeVars>>
  \/ selectOriginSuggestion
     /\ UNCHANGED <<storedRecents, storedFavorites, recents, favorites,
                   destinationText, stops, activeTab, loadPc, loadRaw, loadR,
                   loadF, crCalls, crDraft, crInLoad, pushed, alertShown,
                   tgCalls, clCalls, polyVars, alertVars, roadVars, homeVars>>
  \/ selectDestSuggestion
     /\ UNCHANGED <<storedRecents, storedFavorites, recents, favorites,
                   originText, stops, activeTab, loadPc, loadRaw, loadR,
                   loadF, crCalls, crDraft, crInLoad, pushed, alertShown,
                   tgCalls, clCalls, polyVars, alertVars, roadVars, homeVars>>
  \/ onClearInputs
     /\ UNCHANGED <<storedRecents, storedFavorites, recents, favorites,
                   activeTab, loadPc, loadRaw, loadR, loadF, crCalls, crDraft,
                   crInLoad, pushed, alertShown, tgCalls, clCalls, polyVars,
                   alertVars, roadVars, homeVars>>
  \/ onLoadRouteIntoInputs
     /\ UNCHANGED <<storedRecents, storedFavorites, recents, favorites,
                   activeTab, loadPc, loadRaw, loadR, loadF, crCalls, crDraft,
                   crInLoad, pushed, alertShown, tgCalls, clCalls, polyVars,
                   alertVars, roadVars, homeVars>>
  \/ ToggleFavoriteCall
     /\ UNCHANGED <<storedRecents, recents, originText, destinationText, stops,
                   activeTab, loadPc, loadRaw, loadR, loadF, crCalls, crDraft,
                   crInLoad, pushed, clCalls, polyVars, alertVars, roadVars,
                   homeVars>>
  \/ \E c \in BagToSet(tgCalls) : ToggleFavoriteSaved(c)
     /\ UNCHANGED <<storedRecents, recents, originText, destinationText, stops,
                   activeTab, loadPc, loadRaw, loadR, loadF, crCalls, crDraft,
                   crInLoad, pushed, clCalls, polyVars, alertVars, roadVars,
                   homeVars>>


\* The screen after loadAll has finished, with favourites up to the limit.
InitIndexToggle ==
  /\ PolyIdle /\ AlertIdle /\ RoadIdle /\ HomeIdle
  /\ IndexAtRest
  /\ loadPc = "done"
  /\ recents = <<SavedRoute(<<"r", "1">>, <<"P">>, <<"P">>, <<>>, <<>>)>>
  /\ storedRecents = Stored(recents)
  /\ favorites \in
       {<<>>,
        <<Favorite(<<"P">>, <<"P">>)>>,
        [i \in 1..FavoritesLimit |-> Favorite(<<LowerChars[i]>>, <<"Y">>)]}
  /\ storedFavorites = Stored(favorites)

SpecIndexToggle == InitIndexToggle /\ [][IndexToggleNext]_vars

(***************************************************************************)
(* Properties of the route geometry.                                       *)
(***************************************************************************)
\* C1: decodePolyline applied to the precision-1e5 encoding of a coordinate
\* sequence returns that sequence, same length and order.
C1_RoundTrip ==
  (polyPc = "decoded" /\ route_geometry = encodePolyline(coords))
    => (routeCoords.error = "none" /\ routeCoords.points = coords)

\* A two-point route from one corner of the valid range to the opposite one
\* (negative and six-group deltas) has been encoded and decoded.
C1_Witness ==
  /\ polyPc = "decoded"
  /\ route_geometry = encodePolyline(coords)
  /\ Len(coords) >= 2
  /\ coords[1] = <<9000000, -18000000>>
  /\ coords[2] = <<-9000000, 18000000>>
  /\ Len(routeCoords.points) = Len(coords)

\* Number of terminated delta groups of an encoded string.
groupCount(str) == Cardinality({i \in 1..Len(str) : str[i] - 63 < 32})

\* The last character still has the continuation bit set, or the last
\* point has a latitude group but no longitude group.
Truncated(str) ==
  /\ str # <<>>
  /\ (str[Len(str)] - 63 >= 32 \/ groupCount(str) % 2 = 1)

\* C2: decodePolyline rejects truncated input with a MalformedGeometry
\* error and returns no coordinate list for it.
C2_TruncatedRejected ==
  (polyPc = "decoded" /\ Truncated(route_geometry))
    => (routeCoords.error = "MalformedGeometry" /\ routeCoords.points = <<>>)

(***************************************************************************)
(* Properties of the route-level alert list.                               *)
(***************************************************************************)
\* 1-based position of the first alert with the id in the list.
FirstPos(list, id) ==
  CHOOSE i \in 1..Len(list) :
    list[i].id = id /\ \A j \in 1..(i - 1) : list[j].id # id

\* C3: uniqueAlerts holds each distinct alert id exactly once, in order of
\* first appearance in the concatenated waypoint alerts, the entry kept is
\* the first occurrence, and alerts are merged exactly when ids are equal.
C3_UniqueById ==
  alertPc = "rendered" =>
    LET all == flatMapAlerts(waypoints)
        U   == uniqueAlerts
    IN  /\ {U[i].id : i \in 1..Len(U)} = {all[i].id : i \in 1..Len(all)}
        /\ \A i, j \in 1..Len(U) : i # j => U[i].id # U[j].id
        /\ \A i \in 1..Len(U) : U[i] = all[FirstPos(all, U[i].id)]
        /\ \A i, j \in 1..Len(U) :
             i < j => FirstPos(all, U[i].id) < FirstPos(all, U[j].id)

\* The waypoints carry one id twice with different headlines and two ids
\* with the same headline; both ids are listed, the repeated one once.
C3_Witness ==
  /\ alertPc = "rendered"
  /\ LET all == flatMapAlerts(waypoints)
     IN  /\ \E i, j \in 1..Len(all) :
               i < j /\ all[i].id = all[j].id /\ all[i].headline # all[j].headline
         /\ \E i, j \in 1..Len(all) :
               all[i].id # all[j].id /\ all[i].headline = all[j].headline
         /\ Len(uniqueAlerts) = 2
         /\ Len(all) > 2

\* C4: the uniqueAlerts filter applied to its own output returns that list.
C4_Idempotent ==
  alertPc = "rendered" => uniqueAlertsOf(uniqueAlerts) = uniqueAlerts

\* The filter removed duplicates and left two alerts.
C4_Witness ==
  /\ alertPc = "rendered"
  /\ Len(uniqueAlerts) = 2
  /\ Len(flatMapAlerts(waypoints)) > Len(uniqueAlerts)
  /\ uniqueAlertsOf(uniqueAlerts) = uniqueAlerts

(***************************************************************************)
(* Properties of the road surface conditions.                              *)
(***************************************************************************)
\* C5: a waypoint with at least one alert is classified HAZARD for every
\* temperature, conditions text and wind speed, and without weather.
C5_AlertIsHazard ==
  (roadPc = "rendered" /\ Len(wp.alerts) >= 1) => card.condLabel = "HAZARD"

\* One alert at a waypoint with freezing rain and high wind.
C5_Witness ==
  /\ roadPc = "rendered"
  /\ Len(wp.alerts) = 1
  /\ wp.weather # Null
  /\ wp.weather[1].temperature = Some(-10)
  /\ wp.weather[1].conditions # Null
  /\ includes(toLowerCase(wp.weather[1].conditions[1]), kw_rain)
  /\ wp.weather[1].wind_speed = Some(<<"3", "1", " ", "m", "p", "h">>)
  /\ card.condLabel = "HAZARD"

\* C6: a waypoint without weather snapshot and without alerts is not
\* classified as dry.
C6_MissingIsNotDry ==
  (roadPc = "rendered" /\ wp.weather = Null /\ wp.alerts = <<>>)
    => card.condLabel # "DRY"

\* C7: without alerts, every temperature at or below 32 F (0 F and negative
\* values included) with rain, freezing or drizzle in the text gives ICY.
C7_FreezingRainIsIcy ==
  (/\ roadPc = "rendered"
   /\ wp.alerts = <<>>
   /\ wp.weather # Null
   /\ wp.weather[1].temperature # Null
   /\ wp.weather[1].conditions # Null)
    => LET t == wp.weather[1].temperature[1]
           c == toLowerCase(wp.weather[1].conditions[1])
       IN  (t <= 32 /\ (includes(c, kw_rain) \/ includes(c, kw_freezing)
                        \/ includes(c, kw_drizzle)))
             => card.condLabel = "ICY"

\* The rules after the alert rule, in their fixed order.
RuleOrder == <<"ICY", "SNOW", "SLUSH", "FOG", "WET", "STORM", "WINDY", "DRY">>

\* Whether a rule matches the temperature, lower-case text and wind speed
\* the screen derived for the waypoint.
RuleMatches(rule, t, c, ws) ==
  CASE rule = "ICY"   -> t <= 32 /\ (includes(c, kw_rain) \/ includes(c, kw_freezing)
                                     \/ includes(c, kw_drizzle))
    [] rule = "SNOW"  -> t <= 32 /\ includes(c, kw_snow)
    [] rule = "SLUSH" -> t > 32 /\ t <= 40 /\ includes(c, kw_snow)
    [] rule = "FOG"   -> includes(c, kw_fog) \/ includes(c, kw_mist)
    [] rule = "WET"   -> includes(c, kw_rain) \/ includes(c, kw_shower)
                         \/ includes(c, kw_drizzle)
    [] rule = "STORM" -> includes(c, kw_thunder) \/ includes(c, kw_storm)
    [] rule = "WINDY" -> ws # NaN /\ ws[1] > 30
    [] OTHER          -> TRUE

\* C8: without alerts the rules are tried in the order icy, snow, slush,
\* fog, wet, storm, windy, dry and the earliest matching rule decides;
\* windy only for a wind speed strictly above 30 mph.
C8_FirstMatchWins ==
  (roadPc = "rendered" /\ wp.alerts = <<>>) =>
    LET t  == tempOf(wp)
        c  == conditionsOf(wp)
        ws == windSpeedOf(wp)
        first == CHOOSE i \in 1..8 :
                   /\ RuleMatches(RuleOrder[i], t, c, ws)
                   /\ \A j \in 1..(i - 1) : ~RuleMatches(RuleOrder[j], t, c, ws)
    IN  /\ card.condLabel = RuleOrder[first]
        /\ card.condLabel = "WINDY" => (ws # NaN /\ ws[1] >= 31)
        /\ (ws # NaN /\ ws[1] = 30) => card.condLabel # "WINDY"

\* Rain with thunder above freezing and wind above 30 mph: wet, storm and
\* windy all match and the card says WET.
C8_Witness ==
  /\ roadPc = "rendered"
  /\ wp.alerts = <<>>
  /\ tempOf(wp) > 32
  /\ includes(conditionsOf(wp), kw_rain)
  /\ includes(conditionsOf(wp), kw_thunder)
  /\ windSpeedOf(wp) = Some(31)
  /\ card.condLabel = "WET"

\* C9: without alerts and without an earlier matching rule, fog, mist or
\* haze in the conditions text gives FOG, each keyword alone sufficing.
C9_FogMistHaze ==
  (/\ roadPc = "rendered"
   /\ wp.alerts = <<>>
   /\ wp.weather # Null
   /\ wp.weather[1].temperature # Null
   /\ wp.weather[1].conditions # Null)
    => LET t == wp.weather[1].temperature[1]
           c == toLowerCase(wp.weather[1].conditions[1])
           earlier ==
             \/ t <= 32 /\ (includes(c, kw_rain) \/ includes(c, kw_freezing)
                            \/ includes(c, kw_drizzle))
             \/ t <= 40 /\ includes(c, kw_snow)
       IN  (~earlier /\ (includes(c, kw_fog) \/ includes(c, kw_mist)
                         \/ includes(c, kw_haze)))
             => card.condLabel = "FOG"

SeverityRank(sev) ==
  CASE sev = "Minor" -> 1
    [] sev = "Moderate" -> 2
    [] sev = "Severe" -> 3
    [] sev = "Extreme" -> 4
    [] OTHER -> 0

\* C10: with several alerts the event text of the HAZARD card is the event
\* name of the most severe alert, whatever the order of the list.
C10_MostSevereEvent ==
  (roadPc = "rendered" /\ Len(wp.alerts) >= 2) =>
    \E i \in 1..Len(wp.alerts) :
      /\ \A j \in 1..Len(wp.alerts) :
           SeverityRank(wp.alerts[j].severity) <= SeverityRank(wp.alerts[i].severity)
      /\ card.condDesc = <<wp.alerts[i].event>>

(***************************************************************************)
(* Properties of the home screen's store, recents and favourites.          *)
(***************************************************************************)
sameTrip(a, b) ==
  /\ toLowerCase(trim(a.origin)) = toLowerCase(trim(b.origin))
  /\ toLowerCase(trim(a.destination)) = toLowerCase(trim(b.destination))

hasTrip(list, route) == \E i \in 1..Len(list) : sameTrip(list[i], route)

localData == <<store, recentRoutes, favoriteRoutes>>

\* The step is one of the call c, which was among calls and has moved on
\* or returned.
acts(c, calls, callsAfter) == CopiesIn(c, callsAfter) < CopiesIn(c, calls)

\* C11: no step that starts fetchRecentRoutesRemote or
\* fetchFavoriteRoutesRemote, and no step that ends a call of them whose
\* request has failed or whose list is empty, changes the persisted
\* RouteStore or the displayed recents and favourites.
C11_EmptyOrFailedFetchKeepsLocal ==
  [][((\/ BagCardinality(frCalls') > BagCardinality(frCalls)
       \/ BagCardinality(ffCalls') > BagCardinality(ffCalls)
       \/ \E c \in BagToSet(frCalls) :
            (c.pc = "get" \/ c.routes = <<>>) /\ frCalls' = end(frCalls, c)
       \/ \E c \in BagToSet(ffCalls) :
            (c.pc = "get" \/ c.routes = <<>>) /\ ffCalls' = end(ffCalls, c))
      => UNCHANGED localData)]_vars

\* The history request has failed and the backend has no favourites to
\* send; every fetch has returned and the store holds the recents and the
\* favourites it held before the mount.
C11_Witness ==
  /\ mounted /\ frFailed
  /\ frCalls = EmptyBag /\ ffCalls = EmptyBag
  /\ remoteFavs = <<>>
  /\ store.recents = <<LocalRoute(<<"B">>, <<"Z">>)>>
  /\ store.favorites = <<LocalRoute(<<"A">>, <<"Z">>)>>

\* C12: the writeStore of fetchFavoriteRoutesRemote leaves the recents of
\* the persisted RouteStore as they are, and the writeStore of
\* fetchRecentRoutesRemote its favourites: neither puts back an older
\* value of the other's field.
C12_WriteKeepsOtherField ==
  [][(/\ \A c \in BagToSet(ffCalls) :
           (c.pc = "write" /\ acts(c, ffCalls, ffCalls'))
             => store'.recents = store.recents
      /\ \A c \in BagToSet(frCalls) :
           (c.pc = "write" /\ acts(c, frCalls, frCalls'))
             => store'.favorites = store.favorites)]_vars

\* The step is one on which the call c, which was among calls, returns.
returns(c, calls, callsAfter) ==
  acts(c, calls, callsAfter) /\ BagCardinality(callsAfter) < BagCardinality(calls)

\* C13: when addToFavorites, called with non-blank origin and destination,
\* has saved locally, and when it returns with the remote save succeeded
\* or failed, the persisted store's favourites contain a route with the
\* same origin and destination; when they contained one already, the local
\* save leaves the persisted favourites as they were.
C13_AddKeepsLocalFavorite ==
  [][(\A c \in BagToSet(addCalls) :
        /\ (c.pc \in {"write", "post"} /\ acts(c, addCalls, addCalls'))
             => hasTrip(store'.favorites, c.fav)
        /\ (c.pc = "write" /\ acts(c, addCalls, addCalls')
                /\ hasTrip(store.favorites, c.fav))
             => store'.favorites = store.favorites)]_vars

\* C14: when removeFavorite(route) returns, with the remote delete
\* succeeded, failed or skipped for want of an id, the persisted store's
\* favourites contain no route with the origin and destination of route.
C14_RemoveClearsLocalFavorite ==
  [][(\A c \in BagToSet(rmCalls) :
        returns(c, rmCalls, rmCalls') => ~hasTrip(store'.favorites, c.route))]_vars

\* C15: once removeFavorite has removed a route from the local store and
\* the displayed list, no step of a fetchFavoriteRoutesRemote started after
\* the removal puts it back into either.
C15_RemovedStaysRemoved ==
  [][(\A c \in BagToSet(ffCalls) : \A r \in c.after \cap removed :
        (/\ acts(c, ffCalls, ffCalls')
         /\ ~hasTrip(store.favorites, r)
         /\ ~hasTrip(favoriteRoutes, r))
          => (/\ ~hasTrip(store'.favorites, r)
              /\ ~hasTrip(favoriteRoutes', r)))]_vars

\* C16: when handleGetWeather has succeeded and navigates, the requested
\* route is the first entry of the persisted recents and of the displayed
\* ones, no other entry of either has the same origin and destination,
\* and neither has more than 10 entries; the history endpoint is failing.
C16_RecentFirstOnceAtMostTen ==
  [][(\A c \in BagToSet(gwCalls) :
        (c.pc = "write" /\ acts(c, gwCalls, gwCalls'))
          => \A r \in {store'.recents, recentRoutes'} :
               /\ Len(r) >= 1 /\ Len(r) <= RecentsLimit
               /\ r[1] = c.route
               /\ \A i \in 2..Len(r) : ~sameTrip(r[i], c.route))]_vars

(***************************************************************************)
(* Properties of the index screen's recents and favourites.                *)
(***************************************************************************)
distinctIds(list) ==
  \A i, j \in 1..Len(list) : list[i].id = list[j].id => i = j

\* C17: when the onCheckRoute calls with non-blank inputs have all
\* returned, the recents hold at most 10 routes with pairwise distinct
\* ids, the route checked last is their first element and the list stored
\* under RECENTS_KEY is the in-memory list; a call with a blank input
\* changes neither list and does not navigate.
C17_RecentsAfterCheck ==
  [][(/\ (crCalls # EmptyBag /\ crCalls' = EmptyBag /\ clCalls' = EmptyBag)
           => (/\ Len(recents') <= IndexRecentsLimit
               /\ distinctIds(recents')
               /\ Len(recents') >= 1 /\ recents'[1] = crDraft'
               /\ storedRecents' = Stored(recents'))
      /\ (~alertShown /\ alertShown')
           => UNCHANGED <<recents, storedRecents, pushed, crCalls>>)]_vars

hasSaved(list, route) == \E i \in 1..Len(list) : list[i] = route

\* C18: when loadAll and an onCheckRoute called while it was in flight
\* have both finished, the item stored under RECENTS_KEY and the in-memory
\* recents contain the checked route.
C18_CheckedRouteNotLost ==
  (loadPc = "done" /\ crCalls = EmptyBag /\ crInLoad)
    => (hasSaved(recents, crDraft) /\ hasSaved(storedRecents.items, crDraft))

\* C19: after a tap of the heart with non-blank inputs, the list a second
\* tap with the same inputs makes of the favourites is the list they were
\* before the first tap.
C19_TwoTapsRestore ==
  [][(BagCardinality(tgCalls') > BagCardinality(tgCalls))
      => toggled(favorites', originText', destinationText', stops') = favorites]_vars

====
